---- MODULE Spec2Model ----
(***************************************************************************)
(* A state-machine model of CasTorrent (src/CasTorrent.py): the Tk front   *)
(* end of a libtorrent session.  The application state is the transfer     *)
(* cache (self.torrents), the rows of the transfer list (self.tree), the   *)
(* download history, the performance sample buffers, the log panel, the    *)
(* polling thread and the callbacks it schedules.  The engine (libtorrent) *)
(* and the file system are the environment: their calls may raise.         *)
(***************************************************************************)
EXTENDS Integers, Sequences, FiniteSets, TLC

\* ------------------------------------------------------------------ bounds

\* Lines the log panel may hold before logging handlers are disabled.
MaxLog == 3
\* Rows (attached and detached) the transfer list may hold.
MaxRows == 3
\* Entries explored from an empty history / samples from an empty buffer.
MaxHistory == 2
MaxSamples == 2
\* Scheduled, not yet run, root.after callbacks.
MaxPending == 1
\* Length of the strings typed into the dialogs.
MaxStrLen == 4
\* Consecutive clicks on one column header that are counted.
MaxClicks == 4

\* --------------------------------------------------------------- constants

\* deque(maxlen=3000) and deque(maxlen=600)
HISTORY_MAXLEN == 3000
PERF_MAXLEN == 600

\* The fingerprints (info hashes) of the transfers of the model; a handle is
\* identified with the fingerprint safe_info_hash_str returns for it.
Hashes == {"a", "b"}
\* get_torrents() enumerates the session's transfers in this order.
EngineOrder == <<"a", "b">>
\* status.total_wanted of a transfer whose metadata is known: 1 MiB, 999 KiB
TotalWanted == [h \in Hashes |-> IF h = "a" THEN 1048576 ELSE 1022976]

\* Strings are sequences of tokens; "magnet" ":" is the prefix "magnet:".
MagnetPrefix == <<"magnet", ":">>
Whitespace == {" ", "\n"}
Alphabet == {"magnet", ":", " ", "\n", "a", "b"}

\* Directories: the download path, the completed path.
SaveDir == <<"dl">>
CompletedRoot == <<"done">>

VARIABLES
    eng,                \* the session's transfers: handle -> engine state
    session,            \* self.session: "open" or "none" (set to None on quit)
    torrents,           \* self.torrents: fingerprint -> cache entry
    tree,               \* self.tree: the rows, attached and detached
    hide_completed,     \* self.hide_completed_var
    download_history,   \* self.download_history
    performance_stats,  \* self.performance_stats
    log_text,           \* number of lines in the log panel (self.log_text)
    disk,               \* the paths that exist on disk
    running,            \* self.running
    window,             \* "open" or "destroyed" (self.root)
    mainloop,           \* has main() entered root.mainloop()
    pc,                 \* position of the polling thread
    pending,            \* update_gui_elements callbacks scheduled by root.after
    listen,             \* the listen_on attempts made at startup
    dialog,             \* the modal dialog that is open
    timer,              \* a threading.Timer that unlinks the temporary file
    sort,               \* self._sort_column and self._sort_reverse
    config,             \* self.config
    files,              \* the configuration file and the session-state blob
    settings,           \* the settings of the session (limits, ports, DHT)
    form,               \* the fields of the open Settings or Speed Limits dialog
    toolbar,            \* self.dl_limit_var and self.ul_limit_var of the toolbar
    search,             \* self.search_var
    ev                  \* what the last handler did (observation only)

vars == <<eng, session, torrents, tree, hide_completed, download_history,
          performance_stats, log_text, disk, running, window, mainloop, pc,
          pending, listen, dialog, timer, sort, config, files, settings,
          form, toolbar, search, ev>>

\* The entries of the main window
Entries == <<toolbar, search>>

\* The state of the column sort, the configuration, the Settings dialog and
\* the entries
Prefs == <<sort, config, files, settings, form, toolbar, search>>

\* ----------------------------------------------------------------- strings

\* str.startswith
StartsWith(s, p) ==
    /\ Len(s) >= Len(p)
    /\ SubSeq(s, 1, Len(p)) = p

RECURSIVE LStrip(_)
LStrip(s) ==
    IF s # <<>> /\ Head(s) \in Whitespace THEN LStrip(Tail(s)) ELSE s

RECURSIVE RStrip(_)
RStrip(s) ==
    IF s # <<>> /\ s[Len(s)] \in Whitespace
    THEN RStrip(SubSeq(s, 1, Len(s) - 1)) ELSE s

\* str.strip
Strip(s) == RStrip(LStrip(s))

\* str.splitlines: the lines of s, without the line ends
RECURSIVE SplitLines(_, _)
SplitLines(s, cur) ==
    IF s = <<>> THEN (IF cur = <<>> THEN <<>> ELSE <<cur>>)
    ELSE IF Head(s) = "\n" THEN <<cur>> \o SplitLines(Tail(s), <<>>)
    ELSE SplitLines(Tail(s), Append(cur, Head(s)))

RECURSIVE SelectSeqOf(_, _)
SelectSeqOf(s, keep) ==
    IF s = <<>> THEN <<>>
    ELSE (IF keep[Head(s)] THEN <<Head(s)>> ELSE <<>>) \o SelectSeqOf(Tail(s), keep)

\* All strings of at most n tokens
RECURSIVE StringsUpTo(_)
StringsUpTo(n) ==
    IF n = 0 THEN {<<>>}
    ELSE LET shorter == StringsUpTo(n - 1)
         IN  shorter \cup {Append(s, c) : s \in shorter, c \in Alphabet}

\* ------------------------------------------------------------------ deques

\* An append that never drops an entry
DequeAppend_NoEvict(q, x, maxlen) == Append(q, x)

\* collections.deque.append with maxlen: a full deque drops its oldest entry
DequeAppend(q, x, maxlen) ==
    IF Len(q) >= maxlen THEN Append(Tail(q), x) ELSE Append(q, x)

\* ------------------------------------------------------------------ engine

\* status.progress, in thousandths: a transfer half way, one with the last
\* thousandth outstanding, a complete one
HalfWay == 500
NearlyDone == 999
Complete == 1000

Absent == [st |-> "absent", state |-> "downloading", paused |-> FALSE,
           upload_mode |-> FALSE, name |-> "", max_connections |-> -1,
           sequential |-> FALSE, progress |-> HalfWay]

\* The transfer the engine creates for a source: a torrent file carries its
\* metadata (the name), a magnet link does not yet.
NewTransfer(h, kind) ==
    [st |-> "valid", state |-> "downloading", paused |-> FALSE,
     upload_mode |-> FALSE, name |-> IF kind = "file" THEN h ELSE "",
     max_connections |-> -1, sequential |-> FALSE, progress |-> HalfWay]

\* The fingerprint a magnet URI names, "" when the URI is not well formed
MagnetTarget(uri) ==
    IF StartsWith(uri, MagnetPrefix) /\ Len(uri) = 3 /\ uri[3] \in Hashes
    THEN uri[3] ELSE ""

\* The fingerprint of the torrent file at a path, "" when it is no torrent file
FileTarget(path) ==
    IF path # <<>> /\ path[Len(path)] \in Hashes THEN path[Len(path)] ELSE ""

\* session.get_torrents(): the handles of the session, in the engine's order
Enumerated(e) == SelectSeqOf(EngineOrder, [h \in Hashes |-> e[h].st # "absent"])

\* handle.status(): the snapshot the application reads
Status(e, h) ==
    [name |-> e[h].name,
     paused |-> e[h].paused,
     state |-> e[h].state,
     is_seeding |-> e[h].state = "seeding",
     progress |-> e[h].progress,
     total_wanted |-> IF e[h].name = "" THEN 0 ELSE TotalWanted[h],
     total_done |-> IF e[h].name = "" THEN 0
                    ELSE (TotalWanted[h] * e[h].progress) \div Complete,
     save_path |-> SaveDir]

\* --------------------------------------------------- the transfer cache

\* self.torrents[h] = entry
Put(t, h, entry) == [x \in DOMAIN t \cup {h} |-> IF x = h THEN entry ELSE t[x]]

\* self.torrents.pop(h, None)
Pop(t, h) == [x \in DOMAIN t \ {h} |-> t[x]]

NoTorrents == [x \in {} |-> [source |-> "unknown", moved |-> FALSE]]

\* ------------------------------------------------------ the transfer list

\* get_status_text: the Status column of a row
get_status_text(status) ==
    IF status.paused THEN "Paused"
    ELSE IF status.state = "downloading" THEN "Downloading"
    ELSE IF status.state = "finished" THEN "Finished"
    ELSE IF status.state = "seeding" THEN "Seeding"
    ELSE "Unknown"

\* format_bytes: the text f"{sign}{abs_v:.1f} {unit}" of a byte count, "0 B"
\* for zero.  The text is kept as its three parts; tenths is the number
\* printed with one decimal, in tenths.
Units == <<"B", "KB", "MB", "GB", "TB", "PB">>

RECURSIVE UnitIndex(_, _)
UnitIndex(v, i) ==
    IF v >= 1024 /\ i < Len(Units) THEN UnitIndex(v \div 1024, i + 1) ELSE i

RECURSIVE Pow1024(_)
Pow1024(i) == IF i = 0 THEN 1 ELSE 1024 * Pow1024(i - 1)

\* abs_v / scale with one decimal, rounded
FormatScaled(sign, abs_v, scale, unit) ==
    [sign |-> sign, tenths |-> (20 * abs_v + scale) \div (2 * scale),
     unit |-> unit]

FormatUnit(sign, abs_v, i) == FormatScaled(sign, abs_v, Pow1024(i - 1), Units[i])

FormatAbs(sign, abs_v) == FormatUnit(sign, abs_v, UnitIndex(abs_v, 1))

format_bytes(v) ==
    IF v = 0 THEN [sign |-> "", tenths |-> 0, unit |-> "B"]
    ELSE IF v < 0 THEN FormatAbs("-", -v)
    ELSE FormatAbs("", v)

\* tree.get_children(): the positions of the attached rows, in display order
Children(tr) == {i \in 1..Len(tr) : tr[i].attached}

\* The first attached row whose first tag is h, 0 when there is none: the
\* search loop of update_tree_item and of remove_tree_item
FindItem(tr, h) ==
    LET found == {i \in Children(tr) : tr[i].tag = h}
    IN  IF found = {} THEN 0 ELSE CHOOSE i \in found : \A j \in found : i <= j

\* A deletion that deletes nothing
DeleteAt_Keep(tr, i) == tr

\* Deleting position i of a sequence
DeleteAt(tr, i) == SubSeq(tr, 1, i - 1) \o SubSeq(tr, i + 1, Len(tr))

\* update_tree_item: update the row found by the search, else insert a row
PutRow(tr, i, row) == IF i # 0 THEN [tr EXCEPT ![i] = row] ELSE Append(tr, row)

update_tree_item(tr, h, status) ==
    PutRow(tr, FindItem(tr, h),
           [tag |-> h, name |-> status.name,
            status |-> get_status_text(status),
            size |-> format_bytes(status.total_wanted), attached |-> TRUE])

\* remove_tree_item: delete the row found by the search
remove_tree_item(tr, h) ==
    LET i == FindItem(tr, h)
    IN  IF i # 0 THEN DeleteAt(tr, i) ELSE tr

\* A filter that detaches nothing
refresh_filter_view_Keep(tr, hide) == tr

\* refresh_filter_view: with Hide Completed on, detach the attached rows
\* whose status is Finished or Seeding; the other attached rows are moved to
\* the end in display order, which keeps their order
refresh_filter_view(tr, hide) ==
    [i \in 1..Len(tr) |->
        IF tr[i].attached /\ hide /\ tr[i].status \in {"Finished", "Seeding"}
        THEN [tr[i] EXCEPT !.attached = FALSE]
        ELSE tr[i]]

\* The loop of update_torrent_list over the enumerated handles (lines 693-709).
\* s = [torrents, tree, current, exc]; bad = the handles whose status() raises.
RECURSIVE ListLoop(_, _, _, _)
ListLoop(hs, e, s, bad) ==
    IF hs = <<>> \/ s.exc THEN s
    ELSE LET h == Head(hs)
         IN  IF e[h].st # "valid" THEN ListLoop(Tail(hs), e, s, bad)
             ELSE IF h \in bad THEN [s EXCEPT !.exc = TRUE, !.current = @ \cup {h}]
             ELSE LET t1 == IF h \in DOMAIN s.torrents THEN s.torrents
                            ELSE Put(s.torrents, h,
                                     [source |-> "unknown", moved |-> FALSE])
                  IN  ListLoop(Tail(hs), e,
                               [torrents |-> t1,
                                tree |-> update_tree_item(s.tree, h, Status(e, h)),
                                current |-> s.current \cup {h},
                                exc |-> FALSE],
                               bad)

\* The removal loop of update_torrent_list (lines 710-712)
RECURSIVE RemoveGone(_, _, _)
RemoveGone(t, tr, gone) ==
    IF gone = {} THEN [torrents |-> t, tree |-> tr]
    ELSE LET h == CHOOSE x \in gone : TRUE
         IN  RemoveGone(Pop(t, h), remove_tree_item(tr, h), gone \ {h})

\* update_torrent_list: getRaises = session.get_torrents() raises
update_torrent_list(e, t, tr, getRaises, bad) ==
    LET handles == IF getRaises THEN <<>> ELSE Enumerated(e)
        s == ListLoop(handles, e,
                      [torrents |-> t, tree |-> tr, current |-> {}, exc |-> FALSE],
                      bad)
        r == RemoveGone(s.torrents, s.tree, DOMAIN s.torrents \ s.current)
    IN  IF s.exc THEN [torrents |-> s.torrents, tree |-> s.tree, exc |-> TRUE]
        ELSE [torrents |-> r.torrents, tree |-> r.tree, exc |-> FALSE]

\* ---------------------------------------------------------------- the disk

IsPrefix(p, q) == Len(p) <= Len(q) /\ SubSeq(q, 1, Len(p)) = p

\* Path.mkdir(parents=True, exist_ok=True)
Mkdir(d, p) == d \cup {SubSeq(p, 1, n) : n \in 1..Len(p)}

\* shutil.move(src, dst): into dst when dst is an existing directory, raising
\* when the destination already exists; everything below src moves with it
MoveDest(d, src, dst) == IF dst \in d THEN Append(dst, src[Len(src)]) ELSE dst

Move(d, src, dst) ==
    LET real == MoveDest(d, src, dst)
    IN  IF real \in d THEN [disk |-> d, ok |-> FALSE]
        ELSE [disk |-> {p \in d : ~IsPrefix(src, p)} \cup
                       {real \o SubSeq(p, Len(src) + 1, Len(p)) :
                            p \in {q \in d : IsPrefix(src, q)}},
              ok |-> TRUE]

\* One iteration of the loop of auto_move_completed (lines 1110-1137) for the
\* cached fingerprint h; s = [torrents, disk, msgs, moves].  fsRaises: the
\* shutil.move call raises.
AutoMoveOne(e, s, h, fsRaises) ==
    IF e[h].st # "valid" THEN s              \* handle.status() raises: continue
    ELSE
    LET st == Status(e, h)
        info == s.torrents[h]
        is_done == st.is_seeding \/ st.state = "seeding" \/ st.progress >= 999
        name == st.name
        src == st.save_path
        src_content == Append(src, name)
        target == Append(CompletedRoot, name)
        from == IF src_content \in s.disk THEN src_content ELSE src
        m == Move(s.disk, from, target)
    IN  IF ~(is_done /\ ~info.moved) THEN s
        ELSE IF name = "" THEN s
        ELSE IF src_content \notin s.disk /\ src \notin s.disk THEN s
        ELSE IF fsRaises \/ ~m.ok
             THEN [s EXCEPT !.msgs = Append(@, "Auto-move failed"),
                            !.moves = Append(@, [hash |-> h, from |-> from, ok |-> FALSE])]
             ELSE [torrents |-> [s.torrents EXCEPT ![h].moved = TRUE],
                   disk |-> m.disk,
                   msgs |-> Append(s.msgs, "Auto-moved completed"),
                   moves |-> Append(s.moves, [hash |-> h, from |-> from, ok |-> TRUE])]

RECURSIVE AutoMoveLoop(_, _, _, _)
AutoMoveLoop(hs, e, s, fsRaises) ==
    IF hs = <<>> THEN s
    ELSE AutoMoveLoop(Tail(hs), e,
                      IF Head(hs) \in DOMAIN s.torrents
                      THEN AutoMoveOne(e, s, Head(hs), fsRaises) ELSE s,
                      fsRaises)

\* auto_move_completed: mkdirRaises = completed_root.mkdir raises (return)
auto_move_completed(e, t, d, mkdirRaises, fsRaises) ==
    IF mkdirRaises THEN [torrents |-> t, disk |-> d, msgs |-> <<>>, moves |-> <<>>]
    ELSE AutoMoveLoop(EngineOrder, e,
                      [torrents |-> t, disk |-> Mkdir(d, CompletedRoot),
                       msgs |-> <<>>, moves |-> <<>>],
                      fsRaises)

\* ------------------------------------------------- the performance samples

\* update_performance_stats (lines 1014-1030); F = the calls that raise,
\* sample = the value session.status() and psutil report in this tick
update_performance_stats(ps, sample, F) ==
    LET dl == IF "session.status" \in F THEN 0 ELSE sample
        failed == F \cap {"psutil.Process", "cpu_percent"} # {}
        m1 == IF "psutil.Process" \in F THEN ps.memory_usage
              ELSE DequeAppend(ps.memory_usage, sample, PERF_MAXLEN)
        c1 == IF failed THEN ps.cpu_usage
              ELSE DequeAppend(ps.cpu_usage, sample, PERF_MAXLEN)
    IN  [download_speeds |-> DequeAppend(ps.download_speeds, dl, PERF_MAXLEN),
         upload_speeds |-> DequeAppend(ps.upload_speeds, dl, PERF_MAXLEN),
         memory_usage |-> IF failed THEN DequeAppend(m1, 0, PERF_MAXLEN) ELSE m1,
         cpu_usage |-> IF failed THEN DequeAppend(c1, 0, PERF_MAXLEN) ELSE c1]

\* The models explore buffers at most MaxSamples (MaxHistory) entries away
\* from empty or from full.
SampleRoom(q) == Len(q) < MaxSamples \/ Len(q) + MaxSamples >= PERF_MAXLEN
HistoryRoom(q) == Len(q) < MaxHistory \/ Len(q) + MaxHistory >= HISTORY_MAXLEN

\* ------------------------------------------------------------- observation

\* What the last step did: the command, whether an engine call raised in it
\* and whether the exception left the command, the lines it logged, the
\* dialogs it showed, the thread it ran on, the automatic moves it attempted,
\* the fast-download options it passed to add_torrent (fd),
\* the calls it submitted to the engine, the calls that raised, and the result
\* a dialog set.  failed = the transfers whose automatic move failed since the
\* last user command; retried = those of them this step moved again.
EvRecord(op, raised, escaped, msgs, dialogs, thread, failed) ==
    [op |-> op, raised |-> raised, escaped |-> escaped, msgs |-> msgs,
     dialogs |-> dialogs, thread |-> thread, moves |-> <<>>, sent |-> <<>>,
     faults |-> {}, result |-> <<>>, failed |-> failed, retried |-> {},
     col |-> "", clicks |-> 0, h |-> "",
     was |-> [paused |-> FALSE, upload_mode |-> FALSE],
     fd |-> [given |-> FALSE, enabled |-> FALSE, connections |-> 5,
             sequential |-> TRUE]]

\* h, was = the transfer a control command acted on and its flags before the
\* command
\* col, clicks = the column header clicked last and the number of consecutive
\* clicks on it; the other commands leave the count alone
Ev(op, raised, escaped, msgs, dialogs, thread) ==
    [EvRecord(op, raised, escaped, msgs, dialogs, thread,
              IF thread = "ui" THEN {} ELSE ev.failed)
        EXCEPT !.col = ev.col, !.clicks = ev.clicks]

\* self.log on the UI thread: the lines are appended to the log panel
Logged(msgs) == log_text' = log_text + Len(msgs) /\ log_text' <= MaxLog

\* ------------------------------------------------------------ add_torrent

\* The fast_download argument of add_torrent: None (given = FALSE), or the
\* result of FastDownloadDialog.  Cancel gives Cancelled; OK gives the fields
\* of the dialog; closing the window gives the defaults of the configuration,
\* whose connection count the file may set to any number.
NoFast == [given |-> FALSE, enabled |-> FALSE, connections |-> 5,
           sequential |-> TRUE]
Cancelled == [given |-> TRUE, enabled |-> FALSE, connections |-> 5,
              sequential |-> TRUE]
FastDownloadOptions ==
    {NoFast} \cup [given : {TRUE}, enabled : BOOLEAN, connections : {0, 1, 5},
                   sequential : BOOLEAN]

Max(a, b) == IF a >= b THEN a ELSE b
Min(a, b) == IF a <= b THEN a ELSE b

\* The settings are applied whatever the options say
apply_fast_download_Always(x, fd) ==
    [x EXCEPT !.max_connections = Max(20, fd.connections * 50),
              !.sequential = IF fd.sequential THEN TRUE ELSE @,
              !.upload_mode = FALSE]

\* apply_fast_download (lines 594-610): acts only when enabled
apply_fast_download(x, fd) ==
    IF ~fd.given \/ ~fd.enabled THEN x
    ELSE [x EXCEPT !.max_connections = Max(20, fd.connections * 50),
                   !.sequential = IF fd.sequential THEN TRUE ELSE @,
                   !.upload_mode = FALSE]

\* add_torrent (lines 612-659).  bad = the fingerprints for which the engine's
\* add call raises.  The result: the new engine, cache, history and disk, the
\* lines logged, the calls submitted to the engine, and exc = an exception left
\* add_torrent.
add_torrent(e, t, hist, d, source, fd, bad) ==
    LET d1 == Mkdir(d, SaveDir)
        magnet == StartsWith(source, MagnetPrefix)
        kind == IF magnet THEN "magnet" ELSE "file"
        h == IF magnet THEN MagnetTarget(source) ELSE FileTarget(source)
        raises == h = "" \/ h \in bad
        call == [api |-> IF magnet THEN "add_magnet_uri" ELSE "torrent_info",
                 arg |-> source, ok |-> ~raises]
        handle == IF e[h].st = "valid" THEN e[h] ELSE NewTransfer(h, kind)
        e1 == [e EXCEPT ![h] = apply_fast_download(handle, fd)]
    IN  IF raises
        THEN [eng |-> e, torrents |-> t, hist |-> hist, disk |-> d1,
              msgs |-> <<>>, sent |-> <<call>>, exc |-> TRUE]
        ELSE IF h \in DOMAIN t
        THEN [eng |-> e1, torrents |-> t, hist |-> hist, disk |-> d1,
              msgs |-> <<"Skipped duplicate torrent">>, sent |-> <<call>>,
              exc |-> FALSE]
        ELSE [eng |-> e1,
              torrents |-> Put(t, h, [source |-> kind, moved |-> FALSE]),
              hist |-> DequeAppend(hist, [name |-> e1[h].name, hash |-> h,
                                          source |-> kind], HISTORY_MAXLEN),
              disk |-> d1, msgs |-> <<>>, sent |-> <<call>>, exc |-> FALSE]

\* A loop of guarded add_torrent calls (lines 546-550 and 568-572): an
\* exception of one add is logged and the loop goes on
RECURSIVE AddEach(_, _, _, _, _)
AddEach(srcs, s, fd, bad, errmsg) ==
    IF srcs = <<>> THEN s
    ELSE LET r == add_torrent(s.eng, s.torrents, s.hist, s.disk, Head(srcs), fd, bad)
         IN  AddEach(Tail(srcs),
                     [eng |-> r.eng, torrents |-> r.torrents, hist |-> r.hist,
                      disk |-> r.disk,
                      msgs |-> s.msgs \o r.msgs \o
                               (IF r.exc THEN <<errmsg>> ELSE <<>>),
                      sent |-> s.sent \o r.sent,
                      raised |-> s.raised \/ r.exc],
                     fd, bad, errmsg)

AddStart == [eng |-> eng, torrents |-> torrents, hist |-> download_history,
             disk |-> disk, msgs |-> <<>>, sent |-> <<>>, raised |-> FALSE]

\* No dialog is open; an open dialog has its kind and the text of its entry
\* (magnet_var, lines 1935-1936) or of its text field (line 1989)
NoDialog == [kind |-> "none", text |-> <<>>]

\* A UI command can run: the main loop runs and the window exists
UI == mainloop = "running" /\ window = "open"
\* ... and no modal dialog holds the grab
Idle == UI /\ dialog.kind = "none"

NoThread == <<tree, hide_completed, performance_stats, running, window,
              mainloop, pc, pending, listen, session>>

\* -------------------------------------------------------- the configuration

\* No Settings dialog is open: the fields of the form are empty
NoForm ==
    [download_path |-> <<>>, completed_path |-> <<>>, fd_enabled |-> FALSE,
     fd_conn |-> <<>>, fd_seq |-> FALSE, max_connections |-> <<>>,
     max_uploads |-> <<>>, port_start |-> <<>>, port_end |-> <<>>,
     global_dl_limit |-> <<>>, global_ul_limit |-> <<>>]

\* The port range of the configuration: the default, or another one
DefaultPorts == <<6881, 6891>>
ConfiguredRanges == {DefaultPorts, <<7000, 7010>>}

\* load_config: default_config.  Paths are sequences of components.
default_config ==
    [download_path |-> SaveDir,
     completed_path |-> CompletedRoot,
     max_connections |-> 500,
     max_uploads |-> 50,
     port_range |-> DefaultPorts,
     enable_dht |-> TRUE,
     enable_lsd |-> TRUE,
     enable_upnp |-> TRUE,
     enable_natpmp |-> TRUE,
     global_dl_limit |-> 0,
     global_ul_limit |-> 0,
     last_opened_torrent_dir |-> SaveDir,
     last_saved_torrent_dir |-> SaveDir,
     log_level |-> "INFO",
     fast_download_default_enabled |-> TRUE,
     fast_download_default_connections |-> 5,
     fast_download_sequential |-> TRUE]

\* The JSON type of the value a key holds
BoolKeys == {"enable_dht", "enable_lsd", "enable_upnp", "enable_natpmp",
             "fast_download_default_enabled", "fast_download_sequential"}
IntKeys == {"max_connections", "max_uploads", "global_dl_limit",
            "global_ul_limit", "fast_download_default_connections"}
ListKeys == {"port_range"}

\* Decimal text, as str(int) writes it and int(str) reads it: a sequence of
\* characters
DigitChars == <<"0", "1", "2", "3", "4", "5", "6", "7", "8", "9">>
IsDigit(c) == \E d \in 1..10 : DigitChars[d] = c
DigitVal(c) == (CHOOSE d \in 1..10 : DigitChars[d] = c) - 1
RECURSIVE DigitsOf(_)
DigitsOf(n) ==
    IF n < 10 THEN <<DigitChars[n + 1]>>
    ELSE Append(DigitsOf(n \div 10), DigitChars[(n % 10) + 1])
RECURSIVE IntOfDigits(_)
IntOfDigits(s) ==
    IF s = <<>> THEN 0
    ELSE 10 * IntOfDigits(SubSeq(s, 1, Len(s) - 1)) + DigitVal(s[Len(s)])
AllDigits(s) == \A i \in 1..Len(s) : IsDigit(s[i])
str_int(n) == IF n < 0 THEN <<"-">> \o DigitsOf(-n) ELSE DigitsOf(n)

\* A JSON text is a sequence of tokens: punctuation, true/false, a number
\* with its decimal text, a string with its content
Tok(t, v) == [t |-> t, v |-> v]
Punct(t) == Tok(t, <<>>)

\* json.dump of one value of the configuration
RECURSIVE DumpItems(_, _)
DumpItems(list, i) ==
    IF i > Len(list) THEN <<>>
    ELSE (IF i > 1 THEN <<Punct(",")>> ELSE <<>>)
         \o <<Tok("num", str_int(list[i]))>> \o DumpItems(list, i + 1)
DumpValue(k, v) ==
    IF k \in BoolKeys THEN <<Punct(IF v THEN "true" ELSE "false")>>
    ELSE IF k \in IntKeys THEN <<Tok("num", str_int(v))>>
    ELSE IF k \in ListKeys THEN <<Punct("[")>> \o DumpItems(v, 1) \o <<Punct("]")>>
    ELSE <<Tok("str", v)>>

\* json.dump of the members of a dict
RECURSIVE DumpMembers(_, _)
DumpMember(c, k, last) ==
    <<Tok("str", k), Punct(":")>> \o DumpValue(k, c[k])
        \o (IF last THEN <<>> ELSE <<Punct(",")>>)
DumpNext(c, keys, k) ==
    DumpMember(c, k, keys = {k}) \o DumpMembers(c, keys \ {k})
DumpMembers(c, keys) ==
    IF keys = {} THEN <<>> ELSE DumpNext(c, keys, CHOOSE k \in keys : TRUE)

\* json.dump(self.config, f)
json_dump(c) == <<Punct("{")>> \o DumpMembers(c, DOMAIN c) \o <<Punct("}")>>

\* The JSON grammar of an integer: "-"? ("0" | nonzero digit, digits)
IsJsonNat(s) == s # <<>> /\ AllDigits(s) /\ (Len(s) > 1 => s[1] # "0")
IsJsonInt(s) ==
    IF s # <<>> /\ s[1] = "-" THEN IsJsonNat(SubSeq(s, 2, Len(s)))
    ELSE IsJsonNat(s)
JsonIntValue(s) ==
    IF s[1] = "-" THEN -IntOfDigits(SubSeq(s, 2, Len(s))) ELSE IntOfDigits(s)

\* The result of parsing: the value read and the position after it, or a
\* JSONDecodeError
ParseFail == [ok |-> FALSE, val |-> <<>>, next |-> 0]
Parsed(v, next) == [ok |-> TRUE, val |-> v, next |-> next]
At(toks, i) == IF i \in 1..Len(toks) THEN toks[i].t ELSE "eof"

\* A scalar at position i
ParseScalar(toks, i) ==
    IF At(toks, i) = "true" THEN Parsed(TRUE, i + 1)
    ELSE IF At(toks, i) = "false" THEN Parsed(FALSE, i + 1)
    ELSE IF At(toks, i) = "str" THEN Parsed(toks[i].v, i + 1)
    ELSE IF At(toks, i) = "num" /\ IsJsonInt(toks[i].v)
         THEN Parsed(JsonIntValue(toks[i].v), i + 1)
    ELSE ParseFail

\* The items of a list, the first at position i
RECURSIVE ParseItems(_, _, _)
ParseItemsAfter(toks, item, acc) ==
    IF ~item.ok THEN ParseFail
    ELSE IF At(toks, item.next) = "," 
         THEN ParseItems(toks, item.next + 1, Append(acc, item.val))
    ELSE IF At(toks, item.next) = "]"
         THEN Parsed(Append(acc, item.val), item.next + 1)
    ELSE ParseFail
ParseItems(toks, i, acc) == ParseItemsAfter(toks, ParseScalar(toks, i), acc)

\* A value at position i: a scalar or a list of scalars
ParseValue(toks, i) ==
    IF At(toks, i) = "[" 
    THEN IF At(toks, i + 1) = "]" THEN Parsed(<<>>, i + 2)
         ELSE ParseItems(toks, i + 1, <<>>)
    ELSE ParseScalar(toks, i)

\* dict.update: the keys of b override the keys of a
Merge(a, b) ==
    [k \in DOMAIN a \cup DOMAIN b |-> IF k \in DOMAIN b THEN b[k] ELSE a[k]]
EmptyDict == [k \in {} |-> 0]
Single(k, v) == [x \in {k} |-> v]

\* The members of an object, the first key at position i
RECURSIVE ParseMembers(_, _, _)
ParseMemberAfter(toks, key, value, acc) ==
    IF ~value.ok THEN ParseFail
    ELSE IF At(toks, value.next) = ","
         THEN ParseMembers(toks, value.next + 1, Merge(acc, Single(key, value.val)))
    ELSE IF At(toks, value.next) = "}"
         THEN Parsed(Merge(acc, Single(key, value.val)), value.next + 1)
    ELSE ParseFail
ParseMembers(toks, i, acc) ==
    IF At(toks, i) = "str" /\ At(toks, i + 1) = ":"
    THEN ParseMemberAfter(toks, toks[i].v, ParseValue(toks, i + 2), acc)
    ELSE ParseFail

\* An object at position 1
ParseObject(toks) ==
    IF At(toks, 2) = "}" THEN Parsed(EmptyDict, 3)
    ELSE ParseMembers(toks, 2, EmptyDict)

\* json.load(f): the value of the whole text; kind tells a dict from another
\* value
Whole(toks, r, kind) ==
    [ok |-> r.ok /\ r.next = Len(toks) + 1, kind |-> kind, val |-> r.val]
json_load(toks) ==
    IF At(toks, 1) = "{" THEN Whole(toks, ParseObject(toks), "dict")
    ELSE Whole(toks, ParseValue(toks, 1), "other")

\* A file: missing, present but not readable, or present with its content
Missing == [kind |-> "missing", toks |-> <<>>]
Unreadable == [kind |-> "unreadable", toks |-> <<>>]
Text(toks) == [kind |-> "text", toks |-> toks]

\* load_config without the merge: every loaded file gives the defaults
MergeLoaded_Defaults(loaded) == default_config

\* load_config, lines 1676-1684: {**default_config, **loaded} when the file
\* exists and json.load returns a dict; a file that cannot be opened, a
\* JSONDecodeError and the TypeError of ** on a non-dict give the defaults
MergeLoaded(loaded) ==
    IF loaded.ok /\ loaded.kind = "dict" THEN Merge(default_config, loaded.val)
    ELSE default_config
load_config(file) ==
    IF file.kind = "text" THEN MergeLoaded(json_load(file.toks))
    ELSE default_config

\* save_config (lines 1686-1691): the file holds the dump of self.config
save_config(fs, c) == [fs EXCEPT !.config = Text(json_dump(c))]

\* --------------------------------------------------------- the session state

\* lt.bencode(state): a dictionary between "d" and "e"
bencode(state) == <<Punct("d"), Tok("str", state), Punct("e")>>

\* lt.bdecode(raw): the entry, or a failure
bdecode(raw) ==
    IF Len(raw) = 3 /\ At(raw, 1) = "d" /\ At(raw, 2) = "str" /\ At(raw, 3) = "e"
    THEN Parsed(raw[2].v, 4)
    ELSE ParseFail

\* load_session_state_safe (lines 111-129): the state passed to
\* session.load_state, if any: bdecode, then json.loads when that fails
Decoded(file) ==
    IF file.kind # "text" THEN ParseFail
    ELSE IF bdecode(file.toks).ok THEN bdecode(file.toks)
    ELSE json_load(file.toks)

\* The engine settings of the session: the values the application has set
\* (listen: the range of the last listen_on that succeeded; dht: no call made,
\* start_dht or stop_dht; state: the state given to load_state, if any)
NoState == [loaded |-> FALSE, val |-> <<>>]
session_settings(c, range, dht, state) ==
    [max_connections |-> c.max_connections,
     max_uploads |-> c.max_uploads,
     download_rate_limit |-> c.global_dl_limit,
     upload_rate_limit |-> c.global_ul_limit,
     listen |-> range,
     dht |-> dht,
     state |-> state]

\* session.save_state(): the settings of the session
save_state(s) == [s EXCEPT !.state = NoState]

\* save_session_state_safe (lines 95-109)
save_session_state_safe(fs, s) == [fs EXCEPT !.state = Text(bencode(save_state(s)))]

\* str(Path(p).parent)
ParentDir(p) == IF Len(p) > 1 THEN SubSeq(p, 1, Len(p) - 1) ELSE <<".">>

\* add_torrent_files (lines 536-552): the paths chosen in the file dialog,
\* not empty; the directory of the last one is kept in the configuration
add_torrent_files(Paths, Bad, Fds) ==
    /\ Idle
    /\ \E paths \in Paths \ {<<>>}, fd \in Fds, bad \in Bad :
         LET r == AddEach(paths, AddStart, fd, bad, "Failed adding")
         IN  /\ eng' = r.eng
             /\ torrents' = r.torrents
             /\ download_history' = r.hist
             /\ HistoryRoom(download_history)
             /\ disk' = r.disk
             /\ Logged(r.msgs)
             /\ ev' = [Ev("add_torrent_files", r.raised, FALSE, r.msgs, <<>>, "ui")
                          EXCEPT !.sent = r.sent, !.fd = fd]
             /\ config' = [config EXCEPT !.last_opened_torrent_dir =
                                             ParentDir(paths[Len(paths)])]
             /\ files' = save_config(files, config')
    /\ UNCHANGED <<dialog, timer, sort, settings, form>>
    /\ UNCHANGED Entries
    /\ UNCHANGED NoThread

\* ---------------------------------------------------- update_gui_elements

\* The value the samples of a tick have
Sample == 0

\* The calls of a tick that may raise
EngineFaults == {"get_torrents", "details", "session.status"} \cup Hashes
FsFaults == {"mkdir", "move"}
ProcessFaults == {"psutil.Process", "cpu_percent"}

\* The rows a tick leaves and the exception it meets in update_torrent_list or
\* update_details (F = the calls that raise)
TickList(F) ==
    LET r == update_torrent_list(eng, torrents, tree, "get_torrents" \in F,
                                 F \cap Hashes)
        selectable == \E i \in Children(r.tree) : r.tree[i].tag \in DOMAIN r.torrents
    IN  [torrents |-> r.torrents, tree |-> r.tree,
         exc |-> r.exc \/ ("details" \in F /\ selectable)]

\* Each call of F is made in this tick and raises
Effective(F) ==
    LET r == TickList(F)
        am == auto_move_completed(eng, r.torrents, disk, FALSE, TRUE)
    IN  /\ Cardinality(F \cap Hashes) <= 1
        /\ \A h \in F \cap Hashes : eng[h].st = "valid" /\ "get_torrents" \notin F
        /\ "details" \in F => F \cap Hashes = {} /\ r.exc
        /\ F \ (Hashes \cup {"get_torrents", "details"}) # {} => ~r.exc
        /\ "move" \in F => "mkdir" \notin F /\ am.moves # <<>>
        /\ "cpu_percent" \in F => "psutil.Process" \notin F

\* The transfers of a sequence of attempted moves, and a move that failed
Attempted(moves) == {moves[i].hash : i \in 1..Len(moves)}
Failed(move) == ~move.ok

\* update_gui_elements (lines 674-685), run by the main loop for a callback
\* the polling thread scheduled.  FS = the sets of raising calls explored.
update_gui_elements(FS) ==
    /\ UI
    /\ pending > 0
    /\ pending' = pending - 1
    /\ \E F \in FS :
         LET r == TickList(F)
             ps == update_performance_stats(performance_stats, Sample, F)
             am == auto_move_completed(eng, r.torrents, disk,
                                       "mkdir" \in F, "move" \in F)
             msgs == IF r.exc THEN <<"GUI update error">> ELSE am.msgs
             moves == IF r.exc THEN <<>> ELSE am.moves
         IN  /\ Effective(F)
             /\ IF r.exc
                THEN /\ torrents' = r.torrents
                     /\ tree' = r.tree
                     /\ UNCHANGED <<performance_stats, disk>>
                ELSE /\ \A k \in DOMAIN performance_stats :
                            SampleRoom(performance_stats[k])
                     /\ performance_stats' = ps
                     /\ torrents' = am.torrents
                     /\ disk' = am.disk
                     /\ tree' = IF hide_completed
                                THEN refresh_filter_view(r.tree, hide_completed)
                                ELSE r.tree
             /\ Len(tree') <= MaxRows
             /\ Logged(msgs)
             /\ ev' = [Ev("tick", F \cap EngineFaults # {}, FALSE, msgs, <<>>, "ui")
                          EXCEPT !.faults = F,
                                 !.moves = moves,
                                 !.failed = (ev.failed \ Attempted(moves)) \cup
                                            Attempted(SelectSeq(moves, Failed)),
                                 !.retried = ev.failed \cap Attempted(moves)]
    /\ UNCHANGED <<eng, session, hide_completed, download_history, running,
                   window, mainloop, pc, listen, dialog, timer>>
    /\ UNCHANGED Prefs

\* The View menu's Hide Completed/Seeding check button: the variable flips and
\* refresh_filter_view runs
toggle_hide_completed ==
    /\ Idle
    /\ hide_completed' = ~hide_completed
    /\ tree' = refresh_filter_view(tree, hide_completed')
    /\ ev' = Ev("toggle_hide_completed", FALSE, FALSE, <<>>, <<>>, "ui")
    /\ UNCHANGED <<eng, session, torrents, download_history, performance_stats,
                   log_text, disk, running, window, mainloop, pc, pending,
                   listen, dialog, timer>>
    /\ UNCHANGED Prefs

\* clear_log: the panel is emptied and "Log cleared" is logged
clear_log ==
    /\ Idle
    /\ log_text' = 1
    /\ ev' = Ev("clear_log", FALSE, FALSE, <<"Log cleared">>, <<>>, "ui")
    /\ UNCHANGED <<eng, session, torrents, tree, hide_completed,
                   download_history, performance_stats, disk, running, window,
                   mainloop, pc, pending, listen, dialog, timer>>
    /\ UNCHANGED Prefs

\* ------------------------------------------------------------ sort_treeview

\* parse_human (lines 1602-1613): the byte value of a Size cell, in tenths of
\* a byte; "0 B" is 0
UnitMap(unit) == Pow1024((CHOOSE i \in 1..Len(Units) : Units[i] = unit) - 1)

parse_human(cell) ==
    IF cell = format_bytes(0) THEN 0
    ELSE (IF cell.sign = "-" THEN -1 ELSE 1) * cell.tenths * UnitMap(cell.unit)

\* str(text).lower() of a Status cell, as its rank in the order of strings
LowerRank(text) ==
    CHOOSE i \in 1..5 :
        <<"Downloading", "Finished", "Paused", "Seeding", "Unknown">>[i] = text

\* The sort key of a row for a column (lines 1623-1640)
SortKey(row, col) ==
    IF col = "Size" THEN parse_human(row.size) ELSE LowerRank(row.status)

\* list.sort(key=...): stable, ascending.  x goes behind the rows whose key
\* is not greater.
InsertSorted(rows, x, col) ==
    LET n == Cardinality({i \in 1..Len(rows) :
                            SortKey(rows[i], col) <= SortKey(x, col)})
    IN  SubSeq(rows, 1, n) \o <<x>> \o SubSeq(rows, n + 1, Len(rows))

RECURSIVE SortRows(_, _)
SortRows(rows, col) ==
    IF rows = <<>> THEN <<>>
    ELSE InsertSorted(SortRows(SubSeq(rows, 1, Len(rows) - 1), col),
                      rows[Len(rows)], col)

Reverse(rows) == [i \in 1..Len(rows) |-> rows[Len(rows) + 1 - i]]

\* The attached rows in display order
IsAttached(r) == r.attached
Displayed(tr) == SelectSeq(tr, IsAttached)

\* tree.move(k, '', idx) for every sorted row (lines 1652-1653): the attached
\* rows take the order of rows, the detached rows are not touched
MoveRows(tr, rows) ==
    [i \in 1..Len(tr) |->
        IF tr[i].attached
        THEN rows[Cardinality({j \in 1..i : tr[j].attached})]
        ELSE tr[i]]

\* sort_treeview(col) (lines 1599-1653): a click on the header of col
sort_treeview(col) ==
    /\ Idle
    /\ LET sorted == SortRows(Displayed(tree), col)
           again == sort.column = col
       IN  /\ tree' = MoveRows(tree, IF again /\ sort.reverse
                                     THEN Reverse(sorted) ELSE sorted)
           /\ sort' = [column |-> col, reverse |-> again /\ ~sort.reverse]
    /\ ev' = [Ev("sort_treeview", FALSE, FALSE, <<>>, <<>>, "ui")
                 EXCEPT !.col = col,
                        !.clicks = IF ev.col = col THEN ev.clicks + 1 ELSE 1]
    /\ ev'.clicks <= MaxClicks
    /\ UNCHANGED <<eng, session, torrents, hide_completed, download_history,
                   performance_stats, log_text, disk, running, window,
                   mainloop, pc, pending, listen, dialog, timer>>
    /\ UNCHANGED <<config, files, settings, form>>
    /\ UNCHANGED Entries

\* ------------------------------------------------------ the polling thread

\* The loop test without the exit
PollTest_NoExit ==
    /\ pc = "test"
    /\ pc' = "body"
    /\ UNCHANGED <<eng, session, torrents, tree, hide_completed,
                   download_history, performance_stats, log_text, disk, running,
                   window, mainloop, pending, listen, dialog, timer>>
    /\ ev' = Ev("poll_test", FALSE, FALSE, <<>>, <<>>, "poll")
    /\ UNCHANGED Prefs

\* update_torrents_loop: the test of  while self.running
PollTest ==
    /\ pc = "test"
    /\ pc' = IF running THEN "body" ELSE "exited"
    /\ UNCHANGED <<eng, session, torrents, tree, hide_completed,
                   download_history, performance_stats, log_text, disk, running,
                   window, mainloop, pending, listen, dialog, timer>>
    /\ ev' = Ev("poll_test", FALSE, FALSE, <<>>, <<>>, "poll")
    /\ UNCHANGED Prefs

\* Lines 664-669: post_torrent_updates (an exception is passed over), then
\* root.after(0, update_gui_elements) and sleep(1).  root.after raises once the
\* window is destroyed, and may raise while the main thread has not entered the
\* main loop; the exception leads to the handler of line 670.
PollBody ==
    /\ pc = "body"
    /\ \/ /\ window = "open"
          /\ pending < MaxPending
          /\ pending' = pending + 1
          /\ pc' = "test"
          /\ ev' = Ev("poll", session = "none", FALSE, <<>>, <<>>, "poll")
       \/ /\ window = "destroyed" \/ mainloop = "notstarted"
          /\ pc' = "except"
          /\ ev' = Ev("poll", TRUE, FALSE, <<>>, <<>>, "poll")
          /\ UNCHANGED pending
    /\ UNCHANGED <<eng, session, torrents, tree, hide_completed,
                   download_history, performance_stats, log_text, disk, running,
                   window, mainloop, listen, dialog, timer>>
    /\ UNCHANGED Prefs

\* Lines 670-672: self.log("Update loop error") on the polling thread, then
\* sleep(3).  log changes the log panel when Tk accepts the calls, and falls
\* back to the logger when they raise.
PollExcept ==
    /\ pc = "except"
    /\ pc' = "test"
    /\ IF window = "open" /\ mainloop = "running"
       THEN /\ Logged(<<"Update loop error">>)
            /\ ev' = Ev("poll_log", TRUE, FALSE, <<"Update loop error">>, <<>>, "poll")
       ELSE /\ UNCHANGED log_text
            /\ ev' = Ev("poll_log", TRUE, FALSE, <<>>, <<>>, "poll")
    /\ UNCHANGED <<eng, session, torrents, tree, hide_completed,
                   download_history, performance_stats, disk, running, window,
                   mainloop, pending, listen, dialog, timer>>
    /\ UNCHANGED Prefs

\* main(): app.root.mainloop()
StartMainloop ==
    /\ mainloop = "notstarted"
    /\ mainloop' = "running"
    /\ UNCHANGED <<eng, session, torrents, tree, hide_completed,
                   download_history, performance_stats, log_text, disk, running,
                   window, pc, pending, listen, dialog, timer>>
    /\ ev' = Ev("mainloop", FALSE, FALSE, <<>>, <<>>, "none")
    /\ UNCHANGED Prefs

\* -------------------------------------------------------- the add dialogs

IsMagnet(s) == StartsWith(s, MagnetPrefix)
NonBlank(s) == Strip(s) # <<>>

\* add_magnet_dialog, line 555: MagnetDialog opens with an empty entry and
\* waits (wait_window)
add_magnet_dialog ==
    /\ Idle
    /\ dialog' = [kind |-> "magnet", text |-> <<>>]
    /\ ev' = Ev("add_magnet_dialog", FALSE, FALSE, <<>>, <<>>, "ui")
    /\ UNCHANGED <<eng, torrents, download_history, disk, log_text, timer>>
    /\ UNCHANGED NoThread
    /\ UNCHANGED Prefs

\* add_multi_magnets_dialog, line 562: MultiMagnetDialog opens and waits
add_multi_magnets_dialog ==
    /\ Idle
    /\ dialog' = [kind |-> "multi", text |-> <<>>]
    /\ ev' = Ev("add_multi_magnets_dialog", FALSE, FALSE, <<>>, <<>>, "ui")
    /\ UNCHANGED <<eng, torrents, download_history, disk, log_text, timer>>
    /\ UNCHANGED NoThread
    /\ UNCHANGED Prefs

\* The user types or pastes into the entry of the open dialog
KeyIn(Typed) ==
    /\ UI
    /\ dialog.kind \notin {"none", "settings"}
    /\ dialog.text = <<>>
    /\ \E s \in Typed \ {<<>>} : dialog' = [dialog EXCEPT !.text = s]
    /\ ev' = Ev("key_in", FALSE, FALSE, <<>>, <<>>, "ui")
    /\ UNCHANGED <<eng, torrents, download_history, disk, log_text, timer>>
    /\ UNCHANGED NoThread
    /\ UNCHANGED Prefs

\* MagnetDialog.add_magnet (lines 1960-1966) on the text of the entry; when it
\* sets the result the dialog is destroyed and add_magnet_dialog goes on with
\* lines 556-559, whose add_torrent call is not guarded
add_magnet(Bad, Fds) ==
    /\ UI
    /\ dialog.kind = "magnet"
    /\ \E fd \in Fds, bad \in Bad :
         LET magnet_uri == Strip(dialog.text)
             r == add_torrent(eng, torrents, download_history, disk,
                              magnet_uri, fd, bad)
         IN  IF StartsWith(magnet_uri, MagnetPrefix)
             THEN /\ dialog' = NoDialog
                  /\ eng' = r.eng
                  /\ torrents' = r.torrents
                  /\ download_history' = r.hist
                  /\ HistoryRoom(download_history)
                  /\ disk' = r.disk
                  /\ Logged(r.msgs)
                  /\ ev' = [Ev("add_magnet", r.exc, r.exc, r.msgs, <<>>, "ui")
                               EXCEPT !.sent = r.sent, !.result = <<magnet_uri>>,
                                      !.fd = fd]
             ELSE /\ ev' = Ev("add_magnet", FALSE, FALSE, <<>>, <<"showerror">>, "ui")
                  /\ UNCHANGED <<dialog, eng, torrents, download_history, disk,
                                 log_text>>
    /\ UNCHANGED timer
    /\ UNCHANGED NoThread
    /\ UNCHANGED Prefs

\* Every line that is not blank is passed on
MagnetLines_All(text) ==
    LET split == SplitLines(Strip(Append(text, "\n")), <<>>)
    IN  SelectSeq([i \in 1..Len(split) |-> Strip(split[i])], NonBlank)

\* The magnets MultiMagnetDialog.add_all passes on (lines 2012-2014); text is
\* the content of the text field, to which Text.get(1.0, END) adds a newline
MagnetLines(text) ==
    LET raw == Strip(Append(text, "\n"))
        split == SplitLines(raw, <<>>)
        lines == SelectSeq([i \in 1..Len(split) |-> Strip(split[i])], NonBlank)
    IN  SelectSeq(lines, IsMagnet)

\* MultiMagnetDialog.add_all (lines 2011-2019) on the pasted text; with a
\* result, add_multi_magnets_dialog goes on with the loop of lines 563-572
add_all(Bad, Fds) ==
    /\ UI
    /\ dialog.kind = "multi"
    /\ \E fd \in Fds, bad \in Bad :
         LET magnets == MagnetLines(dialog.text)
             r == AddEach(magnets, AddStart, fd, bad, "Add magnet failed")
         IN  IF magnets # <<>>
             THEN /\ dialog' = NoDialog
                  /\ eng' = r.eng
                  /\ torrents' = r.torrents
                  /\ download_history' = r.hist
                  /\ HistoryRoom(download_history)
                  /\ disk' = r.disk
                  /\ Logged(r.msgs)
                  /\ ev' = [Ev("add_all", r.raised, FALSE, r.msgs, <<>>, "ui")
                               EXCEPT !.sent = r.sent, !.result = magnets,
                                      !.fd = fd]
             ELSE /\ ev' = Ev("add_all", FALSE, FALSE, <<>>, <<"showerror">>, "ui")
                  /\ UNCHANGED <<dialog, eng, torrents, download_history, disk,
                                 log_text>>
    /\ UNCHANGED timer
    /\ UNCHANGED NoThread
    /\ UNCHANGED Prefs

\* MagnetDialog.cancel and MultiMagnetDialog.cancel: the dialog is destroyed
\* with result None, and nothing is added
cancel ==
    /\ UI
    /\ dialog.kind # "none"
    /\ dialog' = NoDialog
    /\ form' = NoForm
    /\ ev' = Ev("cancel", FALSE, FALSE, <<>>, <<>>, "ui")
    /\ UNCHANGED <<eng, torrents, download_history, disk, log_text, timer>>
    /\ UNCHANGED NoThread
    /\ UNCHANGED <<sort, config, files, settings>>
    /\ UNCHANGED Entries

\* ------------------------------------------------------ the Settings dialog

\* int(s) and float(s) of Python on the text of a field: an optional sign,
\* then digits, for float with at most one point
Negative(s) == s # <<>> /\ s[1] = "-"
Unsigned(s) == IF Negative(s) THEN Tail(s) ELSE s
IsPoint(c) == c = "."
NotPoint(c) == c # "."
Points(s) == Len(SelectSeq(s, IsPoint))
WithoutPoint(s) == SelectSeq(s, NotPoint)
RECURSIVE FractionLen(_)
FractionLen(s) ==
    IF s = <<>> \/ s[Len(s)] = "." THEN 0
    ELSE 1 + FractionLen(SubSeq(s, 1, Len(s) - 1))
IsPyInt(s) == Unsigned(s) # <<>> /\ AllDigits(Unsigned(s))
IsPyFloat(s) ==
    /\ Points(Unsigned(s)) <= 1
    /\ WithoutPoint(Unsigned(s)) # <<>>
    /\ AllDigits(WithoutPoint(Unsigned(s)))
Signed(s, n) == IF Negative(s) THEN -n ELSE n
py_int(s) == Signed(s, IntOfDigits(Unsigned(s)))
RECURSIVE Pow10(_)
Pow10(n) == IF n = 0 THEN 1 ELSE 10 * Pow10(n - 1)
Denominator(u) == IF Points(u) = 0 THEN 1 ELSE Pow10(FractionLen(u))
\* int(float(s) * k): the product truncated towards zero
IntOfFloatTimes(s, k) ==
    Signed(s, (IntOfDigits(WithoutPoint(Unsigned(s))) * k)
                 \div Denominator(Unsigned(s)))

\* The one-character text U+221E that stands for "unlimited"
InfinitySign == "(infinity sign)"

\* format_speed_limit_display (lines 1443-1446)
format_speed_limit_display(bytes_per_second) ==
    IF bytes_per_second = 0 THEN <<InfinitySign>>
    ELSE str_int(bytes_per_second \div 1024)

\* The toolbar entries showing the limits of configuration c (lines 321, 325
\* and 1529-1530)
ToolbarOf(c) ==
    [dl |-> format_speed_limit_display(c.global_dl_limit),
     ul |-> format_speed_limit_display(c.global_ul_limit)]

\* SettingsDialog.__init__, lines 2120-2169: the variables of the fields
FormOf(c) ==
    [download_path |-> c.download_path,
     completed_path |-> c.completed_path,
     fd_enabled |-> c.fast_download_default_enabled,
     fd_conn |-> str_int(c.fast_download_default_connections),
     fd_seq |-> c.fast_download_sequential,
     max_connections |-> str_int(c.max_connections),
     max_uploads |-> str_int(c.max_uploads),
     port_start |-> str_int(c.port_range[1]),
     port_end |-> str_int(c.port_range[2]),
     global_dl_limit |-> str_int(c.global_dl_limit \div 1024),
     global_ul_limit |-> str_int(c.global_ul_limit \div 1024)]

\* show_settings (lines 1502-1503): the dialog opens on a copy of the
\* configuration and takes the grab
show_settings ==
    /\ Idle
    /\ dialog' = [kind |-> "settings", text |-> <<>>]
    /\ form' = FormOf(config)
    /\ ev' = Ev("show_settings", FALSE, FALSE, <<>>, <<>>, "ui")
    /\ UNCHANGED <<eng, torrents, download_history, disk, log_text, timer>>
    /\ UNCHANGED NoThread
    /\ UNCHANGED <<sort, config, files, settings>>
    /\ UNCHANGED Entries

\* The user replaces the text of one field of the dialog, or of both ports
settings_edit(Fields, Texts) ==
    /\ UI
    /\ dialog.kind = "settings"
    /\ \/ \E f \in Fields, s \in Texts : form' = [FormOf(config) EXCEPT ![f] = s]
       \/ \E s \in Texts :
             form' = [FormOf(config) EXCEPT !.port_start = s, !.port_end = s]
    /\ ev' = Ev("settings_edit", FALSE, FALSE, <<>>, <<>>, "ui")
    /\ UNCHANGED <<eng, torrents, download_history, disk, log_text, timer, dialog>>
    /\ UNCHANGED NoThread
    /\ UNCHANGED <<sort, config, files, settings>>
    /\ UNCHANGED Entries

\* Every range passes the check
PortRangeOk_Any(port_start, port_end) == TRUE

\* SettingsDialog.apply, line 2188
PortRangeOk(port_start, port_end) ==
    /\ 1 <= port_start /\ port_start <= 65535
    /\ 1 <= port_end /\ port_end <= 65535
    /\ port_start <= port_end

\* SettingsDialog.apply, lines 2184-2187: the conversions before the check
ParsesFirst(f) ==
    /\ IsPyFloat(f.global_dl_limit)
    /\ IsPyFloat(f.global_ul_limit)
    /\ IsPyInt(f.port_start)
    /\ IsPyInt(f.port_end)
\* ... and lines 2194-2204: the conversions inside new_config; an empty
\* connections field stands for 5
ParsesRest(f) ==
    /\ IsPyInt(f.max_connections)
    /\ IsPyInt(f.max_uploads)
    /\ f.fd_conn = <<>> \/ IsPyFloat(f.fd_conn)

\* SettingsDialog.apply, lines 2191-2206: new_config
new_config(f) ==
    [download_path |-> f.download_path,
     completed_path |-> f.completed_path,
     max_connections |-> py_int(f.max_connections),
     max_uploads |-> py_int(f.max_uploads),
     port_range |-> <<py_int(f.port_start), py_int(f.port_end)>>,
     enable_dht |-> TRUE,
     enable_lsd |-> TRUE,
     enable_upnp |-> TRUE,
     enable_natpmp |-> TRUE,
     global_dl_limit |-> Max(0, IntOfFloatTimes(f.global_dl_limit, 1024)),
     global_ul_limit |-> Max(0, IntOfFloatTimes(f.global_ul_limit, 1024)),
     fast_download_default_enabled |-> f.fd_enabled,
     fast_download_default_connections |->
         Max(1, Min(50, IF f.fd_conn = <<>> THEN 5
                        ELSE IntOfFloatTimes(f.fd_conn, 1))),
     fast_download_sequential |-> f.fd_seq]

\* SettingsDialog.apply up to the callback: the error box shown, or none
ApplyError(f) ==
    IF ~ParsesFirst(f) THEN "Please enter valid numeric values."
    ELSE IF ~PortRangeOk(py_int(f.port_start), py_int(f.port_end))
         THEN "Port range must be 1..65535 and start <= end."
    ELSE IF ~ParsesRest(f) THEN "Please enter valid numeric values."
    ELSE ""

\* apply_settings (lines 1505-1530) on the merged configuration c: the
\* session limits, listen_on (ok = it succeeds), the DHT
AppliedSettings(s, c, ok) ==
    session_settings(c, IF ok THEN c.port_range ELSE s.listen,
                     IF c.enable_dht THEN "started" ELSE "stopped", s.state)
AppliedLog(ok) ==
    <<IF ok THEN "Listen ports set" ELSE "Failed to set listen ports",
      "Settings applied">>

\* SettingsDialog.apply (lines 2182-2210) with apply_settings as its callback
settings_apply ==
    /\ UI
    /\ dialog.kind = "settings"
    /\ IF ApplyError(form) # ""
       THEN /\ ev' = Ev("settings_apply", TRUE, FALSE, <<>>,
                        <<ApplyError(form)>>, "ui")
            /\ UNCHANGED <<config, files, settings, form, dialog, log_text,
                           toolbar>>
       ELSE \E ok \in BOOLEAN :
            /\ config' = Merge(config, new_config(form))
            /\ files' = save_config(files, config')
            /\ settings' = AppliedSettings(settings, config', ok)
            /\ toolbar' = ToolbarOf(config')
            /\ Logged(AppliedLog(ok))
            /\ dialog' = NoDialog
            /\ form' = NoForm
            /\ ev' = [Ev("settings_apply", FALSE, FALSE, AppliedLog(ok), <<>>, "ui")
                         EXCEPT !.sent = <<"apply_callback">>]
    /\ UNCHANGED <<eng, torrents, download_history, disk, timer, sort, search>>
    /\ UNCHANGED NoThread

\* -------------------------------------------------- the Fast Download dialog

\* FastDownloadDialog.__init__, lines 1862-1866: the result before a button is
\* pressed
FastDownloadDefaults(c) ==
    [given |-> TRUE, enabled |-> c.fast_download_default_enabled,
     connections |-> c.fast_download_default_connections,
     sequential |-> c.fast_download_sequential]

\* FastDownloadDialog.ok: the connections entry, within 1..50, 5 when the text
\* is no number
ok(enable, conn, seq) ==
    [given |-> TRUE, enabled |-> enable,
     connections |-> IF IsPyFloat(conn)
                     THEN Max(1, Min(50, IntOfFloatTimes(conn, 1))) ELSE 5,
     sequential |-> seq]

\* ask_fast_download_options: the result of the dialog when it ends by OK, by
\* Cancel (the record Cancelled), or by closing its window, which runs neither
\* callback; enable, conn and seq are the two boxes and the entry at that moment
ask_fast_download_options(c, how, enable, conn, seq) ==
    IF how = "ok" THEN ok(enable, conn, seq)
    ELSE IF how = "cancel" THEN Cancelled
    ELSE FastDownloadDefaults(c)

Endings == {"ok", "cancel", "close"}

\* add_torrent_files with its Fast Download dialog: the files are chosen, the
\* dialog ends in one of its three ways, and the files are added with its
\* result
add_torrent_files_asking(Paths, Texts) ==
    /\ Idle
    /\ \E paths \in Paths \ {<<>>}, how \in Endings, enable \in BOOLEAN,
          seq \in BOOLEAN, conn \in Texts :
         LET fd == ask_fast_download_options(config, how, enable, conn, seq)
             r == AddEach(paths, AddStart, fd, {}, "Failed adding")
         IN  /\ eng' = r.eng
             /\ torrents' = r.torrents
             /\ download_history' = r.hist
             /\ HistoryRoom(download_history)
             /\ disk' = r.disk
             /\ Logged(r.msgs)
             /\ ev' = [Ev("add_torrent_files", r.raised, FALSE, r.msgs, <<>>, "ui")
                          EXCEPT !.sent = r.sent, !.fd = fd,
                                 !.result = <<how, enable>>]
             /\ config' = [config EXCEPT !.last_opened_torrent_dir =
                                             ParentDir(paths[Len(paths)])]
             /\ files' = save_config(files, config')
    /\ UNCHANGED <<dialog, timer, sort, settings, form>>
    /\ UNCHANGED Entries
    /\ UNCHANGED NoThread

\* ------------------------------------------------------- the speed limits

\* parse_speed_limit_input (lines 1437-1441): the texts that stand for 0
UnlimitedWords ==
    {<<"0">>, <<"inf">>, <<"infinity">>, <<InfinitySign>>, <<"unlimited">>}
ParsesLimit(s) == s \in UnlimitedWords \/ IsPyFloat(s)
parse_speed_limit_input(s) ==
    IF s \in UnlimitedWords THEN 0 ELSE IntOfFloatTimes(s, 1024)

\* The user replaces the text of the download entry, or of both entries
toolbar_edit(Texts) ==
    /\ Idle
    /\ \E s \in Texts :
         \/ toolbar' = [toolbar EXCEPT !.dl = s]
         \/ toolbar' = [dl |-> s, ul |-> s]
    /\ ev' = Ev("toolbar_edit", FALSE, FALSE, <<>>, <<>>, "ui")
    /\ UNCHANGED <<eng, torrents, download_history, disk, log_text, timer, dialog>>
    /\ UNCHANGED NoThread
    /\ UNCHANGED <<sort, config, files, settings, form, search>>

\* session_set_download_rate_limit and session_set_upload_rate_limit
SetRateLimits(s, dl, ul) ==
    [s EXCEPT !.download_rate_limit = dl, !.upload_rate_limit = ul]

\* apply_speed_limits_toolbar (lines 1424-1435)
apply_speed_limits_toolbar ==
    /\ Idle
    /\ IF ParsesLimit(toolbar.dl) /\ ParsesLimit(toolbar.ul)
       THEN /\ settings' = SetRateLimits(settings,
                                         parse_speed_limit_input(toolbar.dl),
                                         parse_speed_limit_input(toolbar.ul))
            /\ config' = [config EXCEPT
                             !.global_dl_limit = parse_speed_limit_input(toolbar.dl),
                             !.global_ul_limit = parse_speed_limit_input(toolbar.ul)]
            /\ files' = save_config(files, config')
            /\ Logged(<<"Applied speed limits">>)
            /\ ev' = Ev("toolbar_apply", FALSE, FALSE, <<"Applied speed limits">>,
                        <<>>, "ui")
       ELSE /\ ev' = Ev("toolbar_apply", TRUE, FALSE, <<>>,
                        <<"Enter numeric values or '0'/'inf' for limits.">>, "ui")
            /\ UNCHANGED <<settings, config, files, log_text>>
    /\ UNCHANGED <<eng, torrents, download_history, disk, timer, dialog>>
    /\ UNCHANGED NoThread
    /\ UNCHANGED <<sort, form, toolbar, search>>

\* SpeedLimitsDialog.__init__, lines 2537-2551: the fields show the limits of
\* the session in KB/s
SpeedFormOf(s) ==
    [NoForm EXCEPT !.global_dl_limit = str_int(s.download_rate_limit \div 1024),
                   !.global_ul_limit = str_int(s.upload_rate_limit \div 1024)]

\* show_speed_limits (lines 1783-1784)
show_speed_limits ==
    /\ Idle
    /\ dialog' = [kind |-> "speed", text |-> <<>>]
    /\ form' = SpeedFormOf(settings)
    /\ ev' = Ev("show_speed_limits", FALSE, FALSE, <<>>, <<>>, "ui")
    /\ UNCHANGED <<eng, torrents, download_history, disk, log_text, timer>>
    /\ UNCHANGED NoThread
    /\ UNCHANGED <<sort, config, files, settings>>
    /\ UNCHANGED Entries

\* The user replaces the text of the download field, or of both fields
speed_limits_edit(Texts) ==
    /\ UI
    /\ dialog.kind = "speed"
    /\ \E s \in Texts :
         \/ form' = [SpeedFormOf(settings) EXCEPT !.global_dl_limit = s]
         \/ form' = [SpeedFormOf(settings) EXCEPT !.global_dl_limit = s,
                                                  !.global_ul_limit = s]
    /\ ev' = Ev("speed_limits_edit", FALSE, FALSE, <<>>, <<>>, "ui")
    /\ UNCHANGED <<eng, torrents, download_history, disk, log_text, timer, dialog>>
    /\ UNCHANGED NoThread
    /\ UNCHANGED <<sort, config, files, settings>>
    /\ UNCHANGED Entries

\* SpeedLimitsDialog.apply up to the engine calls: the error box shown, or none
SpeedLimitsError(f) ==
    IF ~(IsPyFloat(f.global_dl_limit) /\ IsPyFloat(f.global_ul_limit))
    THEN "Please enter valid numeric values."
    ELSE IF \/ IntOfFloatTimes(f.global_dl_limit, 1024) < 0
            \/ IntOfFloatTimes(f.global_ul_limit, 1024) < 0
         THEN "Limits cannot be negative."
    ELSE ""

\* SpeedLimitsDialog.apply (lines 2558-2571): the limits go to the session
speed_limits_apply ==
    /\ UI
    /\ dialog.kind = "speed"
    /\ IF SpeedLimitsError(form) # ""
       THEN /\ ev' = Ev("speed_limits_apply", TRUE, FALSE, <<>>,
                        <<SpeedLimitsError(form)>>, "ui")
            /\ UNCHANGED <<settings, form, dialog>>
       ELSE /\ settings' = SetRateLimits(settings,
                                Max(0, IntOfFloatTimes(form.global_dl_limit, 1024)),
                                Max(0, IntOfFloatTimes(form.global_ul_limit, 1024)))
            /\ dialog' = NoDialog
            /\ form' = NoForm
            /\ ev' = Ev("speed_limits_apply", FALSE, FALSE, <<>>, <<>>, "ui")
    /\ UNCHANGED <<eng, torrents, download_history, disk, log_text, timer>>
    /\ UNCHANGED NoThread
    /\ UNCHANGED <<sort, config, files>>
    /\ UNCHANGED Entries

\* download_torrent_from_url (lines 581-592) for the URL of UrlDialog.
\* got = what requests.get returns: "error", or the torrent the content is
TempFile(got) == <<"temp.torrent", got>>

download_torrent_from_url(Bad, Fds) ==
    /\ Idle
    /\ \E got \in Hashes \cup {"error", "junk"}, fd \in Fds,
          bad \in Bad :
         LET tmp == TempFile(got)
             r == add_torrent(eng, torrents, download_history, disk \cup {tmp},
                              tmp, fd, bad)
             failed == got = "error" \/ r.exc
             msgs == <<"Downloading torrent from URL">> \o
                     (IF got = "error" THEN <<"URL add error">>
                      ELSE r.msgs \o (IF r.exc THEN <<"URL add error">> ELSE <<>>))
         IN  /\ IF got = "error"
                THEN UNCHANGED <<eng, torrents, download_history, disk, timer>>
                ELSE /\ eng' = r.eng
                     /\ torrents' = r.torrents
                     /\ download_history' = r.hist
                     /\ HistoryRoom(download_history)
                     /\ disk' = r.disk
                     /\ timer' = IF r.exc THEN timer ELSE timer \cup {tmp}
             /\ Logged(msgs)
             /\ ev' = [Ev("add_url", got # "error" /\ r.exc, FALSE, msgs,
                          IF failed THEN <<"showerror">> ELSE <<>>, "ui")
                          EXCEPT !.sent = IF got = "error" THEN <<>> ELSE r.sent,
                                 !.fd = fd]
    /\ UNCHANGED dialog
    /\ UNCHANGED NoThread
    /\ UNCHANGED Prefs

\* The timer of line 589: tmp.exists() and tmp.unlink()
TimerFires ==
    /\ \E p \in timer :
         /\ timer' = timer \ {p}
         /\ disk' = disk \ {p}
    /\ UNCHANGED <<eng, session, torrents, tree, hide_completed,
                   download_history, performance_stats, log_text, running,
                   window, mainloop, pc, pending, listen, dialog>>
    /\ ev' = Ev("timer", FALSE, FALSE, <<>>, <<>>, "none")
    /\ UNCHANGED Prefs

\* ------------------------------------------------------ the search filter

Uppers == <<"A", "B", "C", "D", "E", "F", "G", "H", "I", "J", "K", "L", "M",
            "N", "O", "P", "Q", "R", "S", "T", "U", "V", "W", "X", "Y", "Z">>
Lowers == <<"a", "b", "c", "d", "e", "f", "g", "h", "i", "j", "k", "l", "m",
            "n", "o", "p", "q", "r", "s", "t", "u", "v", "w", "x", "y", "z">>

\* str.lower() on a sequence of characters
LowerChar(c) ==
    IF \E i \in 1..Len(Uppers) : Uppers[i] = c
    THEN Lowers[CHOOSE i \in 1..Len(Uppers) : Uppers[i] = c]
    ELSE c

lower(s) == [i \in 1..Len(s) |-> LowerChar(s[i])]

\* The characters of the texts of a row.  A name and a fingerprint of the
\* model are one character long.
OneChar(x) == IF x = "" THEN <<>> ELSE <<x>>

StatusChars(st) ==
    IF st = "Paused" THEN <<"P", "a", "u", "s", "e", "d">>
    ELSE IF st = "Downloading"
         THEN <<"D", "o", "w", "n", "l", "o", "a", "d", "i", "n", "g">>
    ELSE IF st = "Finished" THEN <<"F", "i", "n", "i", "s", "h", "e", "d">>
    ELSE IF st = "Seeding" THEN <<"S", "e", "e", "d", "i", "n", "g">>
    ELSE <<"U", "n", "k", "n", "o", "w", "n">>

UnitChars(u) ==
    IF u = "B" THEN <<"B">>
    ELSE IF u = "KB" THEN <<"K", "B">>
    ELSE IF u = "MB" THEN <<"M", "B">>
    ELSE IF u = "GB" THEN <<"G", "B">>
    ELSE IF u = "TB" THEN <<"T", "B">>
    ELSE <<"P", "B">>

\* The text of format_bytes: "0 B", or sign, number with one decimal, a space
\* and the unit
SizeChars(size) ==
    IF size.tenths = 0 THEN <<"0", " ", "B">>
    ELSE OneChar(size.sign) \o str_int(size.tenths \div 10) \o <<".">> \o
         str_int(size.tenths % 10) \o <<" ">> \o UnitChars(size.unit)

\* term in text
Contains(text, term) ==
    \E k \in 0..(Len(text) - Len(term)) : SubSeq(text, k + 1, k + Len(term)) = term

\* The test of filter_torrents on one row: the term occurs in the lower-cased
\* text of a column, or in the lower-cased first 16 characters of the first
\* tag.  The columns of the model's rows are the name, the size and the
\* status; the other columns of the program hold numbers, punctuation, units
\* and the infinity sign.
RowMatches(row, term) ==
    \/ \E v \in {OneChar(row.name), SizeChars(row.size), StatusChars(row.status)} :
          Contains(lower(v), term)
    \/ Contains(lower(SubSeq(OneChar(row.tag), 1, Min(16, Len(OneChar(row.tag))))),
                term)

\* The rows after the loop of filter_torrents over tree.get_children(): the
\* attached rows that do not match are detached; the ones that match are moved
\* to the end in display order, which keeps their order
Filtered(tr, term) ==
    [i \in 1..Len(tr) |->
        IF tr[i].attached /\ ~RowMatches(tr[i], term)
        THEN [tr[i] EXCEPT !.attached = FALSE]
        ELSE tr[i]]

\* A key released in the search entry (line 336): the entry holds the text
\* typed, and filter_torrents runs with its lower-cased text
filter_torrents(Terms) ==
    /\ Idle
    /\ \E typed \in Terms :
         /\ search' = typed
         /\ tree' = Filtered(tree, lower(typed))
    /\ ev' = Ev("filter_torrents", FALSE, FALSE, <<>>, <<>>, "ui")
    /\ UNCHANGED <<eng, session, torrents, hide_completed, download_history,
                   performance_stats, log_text, disk, running, window, mainloop,
                   pc, pending, listen, dialog, timer>>
    /\ UNCHANGED <<sort, config, files, settings, form, toolbar>>

\* --------------------------------------------------- the control commands

\* One call on a torrent handle
Call(x, c) ==
    IF c = "resume" THEN [x EXCEPT !.paused = FALSE]
    ELSE IF c = "pause" THEN [x EXCEPT !.paused = TRUE]
    ELSE IF c = "set_upload_mode(True)" THEN [x EXCEPT !.upload_mode = TRUE]
    ELSE IF c = "set_upload_mode(False)" THEN [x EXCEPT !.upload_mode = FALSE]
    ELSE x      \* status, name, force_recheck, force_reannounce

\* The handle after the calls before the first one that raises (failAt = 0:
\* none raises)
RECURSIVE Calls(_, _, _)
Calls(x, cs, failAt) ==
    IF cs = <<>> \/ failAt = 1 THEN x
    ELSE Calls(Call(x, Head(cs)), Tail(cs), IF failAt = 0 THEN 0 ELSE failAt - 1)

\* The calls of the commands when toggle-pause resumes without leaving upload
\* mode
CallsOf_ToggleResumesOnly(op, x) ==
    IF op = "start" THEN <<"resume", "set_upload_mode(False)", "name">>
    ELSE IF op = "pause" THEN <<"pause", "name">>
    ELSE IF op = "stop" THEN <<"set_upload_mode(True)", "pause">>
    ELSE IF op = "force_resume" THEN <<"set_upload_mode(False)", "resume">>
    ELSE IF op = "toggle_pause"
         THEN IF x.paused
              THEN <<"status", "resume", "name">>
              ELSE <<"status", "pause", "name">>
    ELSE IF op = "force_recheck" THEN <<"force_recheck">>
    ELSE <<"force_reannounce">>

\* The calls a command makes inside its try block, before it logs
CallsOf(op, x) ==
    IF op = "start" THEN <<"resume", "set_upload_mode(False)", "name">>
    ELSE IF op = "pause" THEN <<"pause", "name">>
    ELSE IF op = "stop" THEN <<"set_upload_mode(True)", "pause">>
    ELSE IF op = "force_resume" THEN <<"set_upload_mode(False)", "resume">>
    ELSE IF op = "toggle_pause"
         THEN IF x.paused
              THEN <<"status", "set_upload_mode(False)", "resume", "name">>
              ELSE <<"status", "pause", "name">>
    ELSE IF op = "force_recheck" THEN <<"force_recheck">>
    ELSE <<"force_reannounce">>

ErrorLine(op) ==
    IF op = "start" THEN "Start error"
    ELSE IF op = "pause" THEN "Pause error"
    ELSE IF op = "stop" THEN "Stop error"
    ELSE IF op = "force_resume" THEN "Force resume error"
    ELSE IF op = "toggle_pause" THEN "Toggle pause error"
    ELSE IF op = "force_recheck" THEN "Recheck error"
    ELSE "Reannounce error"

\* get_single_selection and get_handle_from_item: the selected row is one of
\* the attached rows, and its handle is the cache entry of its first tag
Selectable == {i \in Children(tree) : tree[i].tag \in DOMAIN torrents}

\* A control command that logs nothing
Control_Unlogged(op, Fail) ==
    /\ Idle
    /\ \E i \in Selectable, f \in Fail :
         LET h == tree[i].tag
             cs == CallsOf(op, eng[h])
             failAt == IF eng[h].st # "valid" THEN 1 ELSE f
         IN  /\ f <= Len(cs)
             /\ eng' = [eng EXCEPT ![h] = IF eng[h].st # "valid" THEN @
                                          ELSE Calls(@, cs, failAt)]
             /\ ev' = Ev(op, failAt \in 1..Len(cs), FALSE, <<>>, <<>>, "ui")
    /\ UNCHANGED <<session, torrents, tree, hide_completed, download_history,
                   performance_stats, disk, running, window, mainloop, pc,
                   pending, listen, dialog, timer, log_text>>
    /\ UNCHANGED Prefs

\* A control command on the selected row (lines 1152-1228, 1319-1343): the
\* calls are made in a try block, an exception is logged.  A call on a handle
\* the engine no longer holds raises.
Control(op, Fail) ==
    /\ Idle
    /\ \E i \in Selectable, f \in Fail :
         LET h == tree[i].tag
             cs == CallsOf(op, eng[h])
             failAt == IF eng[h].st # "valid" THEN 1 ELSE f
             raised == failAt \in 1..Len(cs)
             msgs == IF raised THEN <<ErrorLine(op)>> ELSE <<op>>
         IN  /\ f <= Len(cs)
             /\ eng' = [eng EXCEPT ![h] = IF eng[h].st # "valid" THEN @
                                          ELSE Calls(@, cs, failAt)]
             /\ Logged(msgs)
             /\ ev' = [Ev(op, raised, FALSE, msgs, <<>>, "ui")
                          EXCEPT !.h = h,
                                 !.was = [paused |-> eng[h].paused,
                                          upload_mode |-> eng[h].upload_mode]]
    /\ UNCHANGED <<session, torrents, tree, hide_completed, download_history,
                   performance_stats, disk, running, window, mainloop, pc,
                   pending, listen, dialog, timer>>
    /\ UNCHANGED Prefs

Failures == 0..4

start_selected == Control("start", Failures)
pause_selected == Control("pause", Failures)
stop_selected == Control("stop", Failures)
force_resume_selected == Control("force_resume", Failures)
toggle_pause_selected == Control("toggle_pause", Failures)
force_recheck == Control("force_recheck", Failures)
force_reannounce == Control("force_reannounce", Failures)

\* ------------------------------------------------------------------ remove

\* Deleting a path and everything below it (shutil.rmtree, unlink)
Rmtree(d, p) == {q \in d : ~IsPrefix(p, q)}

\* session.remove_torrent(h, delete_files): the engine deletes the transfer's
\* files, save_path/name
EngineDelete(d, x) ==
    IF x.name = "" THEN d ELSE Rmtree(d, Append(SaveDir, x.name))

\* _remove_common (lines 1246-1276) for the selected row i.
\*   first:    the first remove_torrent call raises
\*   fallback: the remove_torrent call of the fallback raises
\*   status:   h.status() on the removed handle raises
_remove_common(i, delete_data, first, fallback, status) ==
    LET h == tree[i].tag
        x == eng[h]
        gone == eng[h].st # "valid"
        target == IF x.name # "" THEN Append(SaveDir, x.name) ELSE SaveDir
        failed == IF delete_data THEN (first \/ gone) /\ (fallback \/ gone)
                  ELSE first \/ gone
        d1 == IF ~delete_data THEN disk
              ELSE IF ~(first \/ gone) THEN EngineDelete(disk, x)
              ELSE IF status THEN disk
              ELSE Rmtree(disk, target)
        msgs == IF failed THEN <<"Remove error">>
                ELSE IF delete_data THEN <<"Removed torrent and data">>
                ELSE <<"Removed torrent">>
    IN  /\ delete_data \/ ~(fallback \/ status)
        /\ first \/ ~(fallback \/ status)
        /\ fallback => ~status
        /\ IF failed
           THEN UNCHANGED <<eng, torrents, tree, disk>>
           ELSE /\ eng' = [eng EXCEPT ![h] = Absent]
                /\ torrents' = Pop(torrents, h)
                /\ tree' = DeleteAt(tree, i)
                /\ disk' = d1
        /\ Logged(msgs)
        /\ ev' = [Ev(IF delete_data THEN "remove_and_delete" ELSE "remove",
                     first \/ gone, FALSE, msgs, <<"askyesno">>, "ui")
                     EXCEPT !.sent =
                        (IF delete_data
                         THEN <<[api |-> "remove_torrent(delete_files)",
                                 arg |-> <<h>>, ok |-> ~(first \/ gone)]>>
                         ELSE <<>>) \o
                        (IF ~delete_data \/ first \/ gone
                         THEN <<[api |-> "remove_torrent", arg |-> <<h>>,
                                 ok |-> ~failed]>>
                         ELSE <<>>),
                            !.faults =
                        (IF delete_data /\ (first \/ gone)
                         THEN {"remove_torrent(delete_files)"} ELSE {}) \cup
                        (IF failed THEN {"remove_torrent"} ELSE {}) \cup
                        (IF status THEN {"status"} ELSE {})]

\* remove_selected: the confirmation, then _remove_common
remove_selected ==
    /\ Idle
    /\ \E i \in Selectable :
         \/ /\ UNCHANGED <<eng, torrents, tree, disk, log_text>>
            /\ ev' = Ev("remove_declined", FALSE, FALSE, <<>>, <<"askyesno">>, "ui")
         \/ \E first \in BOOLEAN :
                _remove_common(i, FALSE, first, FALSE, FALSE)
    /\ UNCHANGED <<session, hide_completed, download_history, performance_stats,
                   running, window, mainloop, pc, pending, listen, dialog, timer>>
    /\ UNCHANGED Prefs

\* remove_and_delete_selected: the confirmation, then _remove_common
remove_and_delete_selected ==
    /\ Idle
    /\ \E i \in Selectable :
         \/ /\ UNCHANGED <<eng, torrents, tree, disk, log_text>>
            /\ ev' = Ev("remove_declined", FALSE, FALSE, <<>>, <<"askyesno">>, "ui")
         \/ \E first, fallback, status \in BOOLEAN :
                _remove_common(i, TRUE, first, fallback, status)
    /\ UNCHANGED <<session, hide_completed, download_history, performance_stats,
                   running, window, mainloop, pc, pending, listen, dialog, timer>>
    /\ UNCHANGED Prefs

\* ----------------------------------------------------------------- Save As

DestDir == <<"out">>

\* shutil.copytree(src, dst, dirs_exist_ok=True) and shutil.copy2
Copy(d, src, dst) ==
    Mkdir(d, dst) \cup {dst \o SubSeq(p, Len(src) + 1, Len(p)) :
                            p \in {q \in d : IsPrefix(src, q)}}

\* save_as_selected (lines 1278-1317); fsRaises = the copy raises
save_as_selected(Fs) ==
    /\ Idle
    /\ \E i \in Selectable, fsRaises \in Fs, chosen \in BOOLEAN :
         LET h == tree[i].tag
             st == Status(eng, h)
             src_content == Append(st.save_path, st.name)
             target == Append(DestDir, st.name)
             from == IF src_content \in disk THEN src_content ELSE st.save_path
         IN  IF eng[h].st # "valid"
             THEN /\ ev' = Ev("save_as", TRUE, TRUE, <<>>, <<>>, "ui")
                  /\ UNCHANGED <<disk, log_text>>
             ELSE IF st.save_path \notin disk
             THEN /\ ev' = Ev("save_as", FALSE, FALSE, <<>>, <<"showinfo">>, "ui")
                  /\ UNCHANGED <<disk, log_text>>
             ELSE IF ~chosen
             THEN /\ ev' = Ev("save_as", FALSE, FALSE, <<>>, <<"askdirectory">>, "ui")
                  /\ UNCHANGED <<disk, log_text>>
             ELSE IF st.name = ""
             THEN /\ ev' = Ev("save_as", FALSE, FALSE, <<>>,
                              <<"askdirectory", "showinfo">>, "ui")
                  /\ UNCHANGED <<disk, log_text>>
             ELSE IF fsRaises
             THEN /\ ev' = [Ev("save_as", FALSE, FALSE, <<"Save As failed">>,
                               <<"askdirectory", "showerror">>, "ui")
                               EXCEPT !.faults = {"copy"}]
                  /\ Logged(<<"Save As failed">>)
                  /\ UNCHANGED disk
             ELSE /\ ev' = Ev("save_as", FALSE, FALSE, <<"Saved to">>,
                              <<"askdirectory", "showinfo">>, "ui")
                  /\ Logged(<<"Saved to">>)
                  /\ disk' = Copy(disk, from, target)
    /\ UNCHANGED <<eng, session, torrents, tree, hide_completed,
                   download_history, performance_stats, running, window,
                   mainloop, pc, pending, listen, dialog, timer>>
    /\ UNCHANGED Prefs

\* ------------------------------------------------------------------- quit

\* The pause loop of on_closing (lines 1770-1772): the first pause() that
\* raises ends the loop
RECURSIVE PauseAll(_, _, _)
PauseAll(hs, e, failAt) ==
    IF hs = <<>> \/ failAt = 1 THEN e
    ELSE IF e[Head(hs)].st # "valid" THEN PauseAll(Tail(hs), e, failAt)
    ELSE PauseAll(Tail(hs), [e EXCEPT ![Head(hs)].paused = TRUE],
                  IF failAt = 0 THEN 0 ELSE failAt - 1)

\* The transfer whose pause() raises: the failAt-th valid one enumerated
IsValidHandle(x) == x.st = "valid"
PauseRaises(e, failAt) ==
    IF failAt = 0 THEN {}
    ELSE {SelectSeqOf(EngineOrder, [h \in Hashes |-> IsValidHandle(e[h])])[failAt]}

\* The statements of a confirmed quit: each one is recorded with the values
\* of running, session and window it starts with
ClosingStart ==
    [running |-> running, session |-> session, window |-> window,
     files |-> files, trace |-> <<>>]
Stepped(s, name) ==
    [s EXCEPT !.trace = Append(@, [step |-> name, running |-> s.running,
                                   session |-> s.session, window |-> s.window])]
ClearRunning(s) == [Stepped(s, "running = False") EXCEPT !.running = FALSE]
\* session.save_state() raises on a released session; the exception is logged
SaveState(s, st) ==
    [Stepped(s, "save_session_state_safe") EXCEPT
        !.files = IF s.session = "open" THEN save_session_state_safe(@, st) ELSE @]
SaveConfig(s, c) == [Stepped(s, "save_config") EXCEPT !.files = save_config(@, c)]
Pause(s) == Stepped(s, "pause")
Release(s) == [Stepped(s, "session = None") EXCEPT !.session = "none"]
Destroy(s) == [Stepped(s, "destroy") EXCEPT !.window = "destroyed"]

\* The session is released and the window destroyed before the files are
\* written
Closing_ReleaseFirst(s, st, c) ==
    Pause(SaveConfig(SaveState(Destroy(Release(ClearRunning(s))), st), c))

\* on_closing, lines 1767-1779, after the confirmation
Closing(s, st, c) ==
    Destroy(Release(Pause(SaveConfig(SaveState(ClearRunning(s), st), c))))

\* The state a confirmed quit leaves, and the record of its statements
Quit(r, faults) ==
    /\ running' = r.running
    /\ session' = r.session
    /\ window' = r.window
    /\ files' = r.files
    /\ ev' = [Ev("quit", faults # {}, FALSE, <<>>, <<"askokcancel">>, "ui")
                 EXCEPT !.faults = faults, !.sent = r.trace]

\* on_closing (lines 1764-1779)
on_closing ==
    /\ Idle
    /\ \/ /\ ev' = Ev("quit_declined", FALSE, FALSE, <<>>, <<"askokcancel">>, "ui")
          /\ UNCHANGED <<eng, session, disk, running, window, mainloop, pending,
                         files>>
       \/ \E failAt \in 0..Cardinality(Hashes) :
            /\ failAt <= Cardinality({h \in Hashes : eng[h].st = "valid"})
            /\ Quit(Closing(ClosingStart, settings, config),
                    PauseRaises(eng, failAt))
            /\ disk' = disk \cup {<<"session_state">>, <<"torrent_client_config.json">>}
            /\ eng' = PauseAll(Enumerated(eng), eng, failAt)
            /\ mainloop' = "ended"
            /\ pending' = 0
    /\ UNCHANGED <<torrents, tree, hide_completed, download_history,
                   performance_stats, log_text, pc, listen, dialog, timer>>
    /\ UNCHANGED <<sort, config, settings, form>>
    /\ UNCHANGED Entries

\* ------------------------------------------------------------ the engine

\* The metadata of a magnet transfer arrives
EngineMetadata(h) ==
    /\ session = "open"
    /\ eng[h].st = "valid"
    /\ eng[h].name = ""
    /\ eng' = [eng EXCEPT ![h].name = h]
    /\ UNCHANGED <<session, torrents, tree, hide_completed, download_history,
                   performance_stats, log_text, disk, running, window, mainloop,
                   pc, pending, listen, dialog, timer>>
    /\ ev' = Ev("engine", FALSE, FALSE, <<>>, <<>>, "none")
    /\ UNCHANGED Prefs

\* A transfer completes: its content is on disk and it seeds
EngineFinish(h) ==
    /\ session = "open"
    /\ eng[h].st = "valid"
    /\ eng[h].name # ""
    /\ eng[h].state = "downloading"
    /\ ~eng[h].paused
    /\ eng' = [eng EXCEPT ![h].state = "seeding", ![h].progress = Complete]
    /\ disk' = Mkdir(disk, Append(SaveDir, eng[h].name))
    /\ UNCHANGED <<session, torrents, tree, hide_completed, download_history,
                   performance_stats, log_text, running, window, mainloop,
                   pc, pending, listen, dialog, timer>>
    /\ ev' = Ev("engine", FALSE, FALSE, <<>>, <<>>, "none")
    /\ UNCHANGED Prefs

\* A handle of the session becomes invalid
EngineInvalidate(h) ==
    /\ session = "open"
    /\ eng[h].st = "valid"
    /\ eng' = [eng EXCEPT ![h].st = "invalid"]
    /\ UNCHANGED <<session, torrents, tree, hide_completed, download_history,
                   performance_stats, log_text, disk, running, window, mainloop,
                   pc, pending, listen, dialog, timer>>
    /\ ev' = Ev("engine", FALSE, FALSE, <<>>, <<>>, "none")
    /\ UNCHANGED Prefs

\* A transfer nears its end: the engine still downloads it, all but the last
\* thousandth of its content is on disk
EngineProgress(h) ==
    /\ session = "open"
    /\ eng[h].st = "valid"
    /\ eng[h].name # ""
    /\ eng[h].state = "downloading"
    /\ eng[h].progress < NearlyDone
    /\ eng' = [eng EXCEPT ![h].progress = NearlyDone]
    /\ disk' = Mkdir(disk, Append(SaveDir, eng[h].name))
    /\ UNCHANGED <<session, torrents, tree, hide_completed, download_history,
                   performance_stats, log_text, running, window, mainloop,
                   pc, pending, listen, dialog, timer>>
    /\ ev' = Ev("engine", FALSE, FALSE, <<>>, <<>>, "none")
    /\ UNCHANGED Prefs

\* ------------------------------------------------------------------ startup

\* One listen attempt only
ListenAttempts_Once(range, ok1, ok2) == <<[range |-> range, ok |-> ok1]>>

\* apply_initial_session_settings, lines 198-204: listen on the configured
\* range, and on the default range when that fails
ListenAttempts(range, ok1, ok2) ==
    IF ok1 THEN <<[range |-> range, ok |-> TRUE]>>
    ELSE <<[range |-> range, ok |-> FALSE],
           [range |-> DefaultPorts, ok |-> ok2]>>

\* The range the session listens on after the attempts
Listening(attempts) ==
    IF attempts[Len(attempts)].ok THEN attempts[Len(attempts)].range ELSE <<>>

\* load_session_state_safe (lines 111-129): session.load_state is called with
\* the decoded state when the file exists and decodes
LoadedState(file) == [loaded |-> Decoded(file).ok, val |-> Decoded(file).val]

\* apply_initial_session_settings (lines 193-210): the limits, the listen
\* attempts, the DHT when enable_dht is set, the saved session state
apply_initial_session_settings(c, attempts, statefile) ==
    session_settings(c, Listening(attempts),
                     IF c.enable_dht THEN "started" ELSE "untouched",
                     LoadedState(statefile))

\* No file of an earlier run
NoFiles == [config |-> Missing, state |-> Missing]
\* The files an earlier run with configuration c has left
Saved(c) == [config |-> Text(json_dump(c)), state |-> Missing]


EmptyStats == [download_speeds |-> <<>>, upload_speeds |-> <<>>,
               memory_usage |-> <<>>, cpu_usage |-> <<>>]

\* TorrentClient.__init__: the state when the constructor returns, the polling
\* thread started and the main loop not yet entered
InitWith(Oks, Histories, Stats, Files) ==
    /\ eng = [h \in Hashes |-> Absent]
    /\ session = "open"
    /\ torrents = NoTorrents
    /\ tree = <<>>
    /\ hide_completed = FALSE
    /\ download_history \in Histories
    /\ performance_stats \in Stats
    /\ log_text = 1
    /\ disk = {SaveDir}
    /\ running = TRUE
    /\ window = "open"
    /\ mainloop = "notstarted"
    /\ pc = "test"
    /\ pending = 0
    /\ files \in Files
    /\ config = load_config(files.config)
    /\ listen \in {ListenAttempts(config.port_range, o[1], o[2]) : o \in Oks}
    /\ settings = apply_initial_session_settings(config, listen, files.state)
    /\ form = NoForm
    /\ toolbar = ToolbarOf(config)
    /\ search = <<>>
    /\ dialog = NoDialog
    /\ timer = {}
    /\ sort = [column |-> "", reverse |-> FALSE]
    /\ ev = EvRecord("init", FALSE, FALSE, <<"BitTorrent client started">>,
                     <<>>, "ui", {})

Init == InitWith({<<TRUE, TRUE>>}, {<<>>}, {EmptyStats}, {NoFiles})

\* ------------------------------------------------------- specifications

Poller == PollTest \/ PollBody \/ PollExcept

\* The transfer list: ticks whose enumeration or status calls may raise
TorrentFiles == {<<<<"a">>>>, <<<<"b">>>>}
ListFaults == {{}, {"get_torrents"}, {"a"}}

Next ==
    \/ StartMainloop
    \/ Poller
    \/ update_gui_elements(ListFaults)
    \/ add_torrent_files(TorrentFiles, {{}}, {Cancelled})
    \/ toggle_hide_completed
    \/ \E h \in Hashes : EngineFinish(h)
    \/ \E h \in Hashes : EngineInvalidate(h)

Spec == Init /\ [][Next]_vars

\* The bounded buffers.  A client that has run for a while: the history holds
\* n entries, the oldest one of transfer "b"; each sample buffer holds n
\* samples, the oldest one 1.
OldestEntry == [name |-> "b", hash |-> "b", source |-> "file"]
NewerEntry == [name |-> "a", hash |-> "a", source |-> "file"]
FilledHistory(n) == [i \in 1..n |-> IF i = 1 THEN OldestEntry ELSE NewerEntry]
FilledSamples(n) == [i \in 1..n |-> IF i = 1 THEN 1 ELSE Sample]
FilledStats(n) == [k \in DOMAIN EmptyStats |-> FilledSamples(n)]

InitBuf ==
    InitWith({<<TRUE, TRUE>>},
             {<<>>, FilledHistory(HISTORY_MAXLEN - 1)},
             {EmptyStats, FilledStats(PERF_MAXLEN - 1)}, {NoFiles})

SampleFaults == {{}, {"session.status"}, {"cpu_percent"}}

NextBuf ==
    \/ StartMainloop
    \/ Poller
    \/ update_gui_elements(SampleFaults)
    \/ add_torrent_files({<<<<"a">>>>}, {{}}, {Cancelled})
    \/ EngineInvalidate("a")

SpecBuf == InitBuf /\ [][NextBuf]_vars

\* The polling thread from the constructor to the quit handler.  A thread
\* that can take a step is scheduled eventually.
NextPoll ==
    \/ StartMainloop
    \/ Poller
    \/ update_gui_elements({{}})
    \/ add_torrent_files(TorrentFiles, {{}}, {Cancelled})
    \/ clear_log
    \/ on_closing

SpecPoll ==
    /\ Init
    /\ [][NextPoll]_vars
    /\ WF_vars(PollTest)
    /\ WF_vars(PollBody)
    /\ WF_vars(PollExcept)

\* The commands on the selected transfer
CtlFiles == {<<<<"a">>, <<"b">>>>}

NextCtl ==
    \/ StartMainloop
    \/ Poller
    \/ update_gui_elements({{}})
    \/ add_torrent_files(CtlFiles, {{}}, {Cancelled})
    \/ start_selected
    \/ pause_selected
    \/ stop_selected
    \/ force_resume_selected
    \/ toggle_pause_selected
    \/ force_recheck
    \/ force_reannounce
    \/ remove_selected
    \/ remove_and_delete_selected
    \/ EngineInvalidate("a")

SpecCtl == Init /\ [][NextCtl]_vars

\* The four ways to add a transfer, with sources the engine refuses
AddFiles == {<<<<"a">>>>, <<<<"junk">>>>, <<<<"a">>, <<"junk">>, <<"b">>>>}
AddTyped ==
    {<<"magnet", ":", "a">>, <<"magnet", ":">>, <<"a">>,
     <<"magnet", ":", "a", "\n", "b", "\n", "magnet", ":">>}
AddBad == {{}, {"b"}}

NextAdd ==
    \/ StartMainloop
    \/ add_torrent_files(AddFiles, AddBad, {Cancelled})
    \/ add_magnet_dialog
    \/ add_multi_magnets_dialog
    \/ KeyIn(AddTyped)
    \/ add_magnet(AddBad, {Cancelled})
    \/ add_all(AddBad, {Cancelled})
    \/ cancel
    \/ download_torrent_from_url(AddBad, {Cancelled})
    \/ TimerFires
    \/ clear_log

SpecAdd == Init /\ [][NextAdd]_vars

\* The magnet dialogs on every text of at most MaxStrLen tokens
NextDlg ==
    \/ StartMainloop
    \/ add_magnet_dialog
    \/ add_multi_magnets_dialog
    \/ KeyIn(StringsUpTo(MaxStrLen))
    \/ add_magnet({{}}, {Cancelled})
    \/ add_all({{}}, {Cancelled})
    \/ cancel

SpecDlg == Init /\ [][NextDlg]_vars

\* Completed transfers and the file system: every outcome of the listen
\* calls at startup, ticks whose move or mkdir raises, Save As whose copy raises
InitMove ==
    InitWith(BOOLEAN \X BOOLEAN, {<<>>}, {EmptyStats},
             {Saved([default_config EXCEPT !.port_range = r]) :
                 r \in ConfiguredRanges})

MoveFaults == {{}, {"move"}, {"mkdir"}}

NextMove ==
    \/ StartMainloop
    \/ Poller
    \/ update_gui_elements(MoveFaults)
    \/ add_torrent_files({<<<<"a">>>>}, {{}}, {Cancelled})
    \/ EngineFinish("a")
    \/ save_as_selected(BOOLEAN)
    \/ clear_log

SpecMove == InitMove /\ [][NextMove]_vars

\* The column sort: clicks on the headers of two columns of a list whose rows
\* differ in size and in status
Columns == {"Size", "Status"}

NextSort ==
    \/ StartMainloop
    \/ Poller
    \/ update_gui_elements({{}})
    \/ add_torrent_files(TorrentFiles, {{}}, {Cancelled})
    \/ \E col \in Columns : sort_treeview(col)
    \/ \E h \in Hashes : EngineFinish(h)

SpecSort == Init /\ [][NextSort]_vars

FastFiles == {<<<<"a">>>>}

\* Removing transfers: a torrent file whose content gets onto the disk and a
\* magnet link whose metadata has not arrived, in one download directory
RemoveTyped == {<<"magnet", ":", "b">>}

NextRemove ==
    \/ StartMainloop
    \/ Poller
    \/ update_gui_elements({{}})
    \/ add_torrent_files(FastFiles, {{}}, {Cancelled})
    \/ add_magnet_dialog
    \/ KeyIn(RemoveTyped)
    \/ add_magnet({{}}, {Cancelled})
    \/ EngineFinish("a")
    \/ remove_selected
    \/ remove_and_delete_selected

SpecRemove == Init /\ [][NextRemove]_vars

\* Fast download: one torrent file added, and added again, with every result
\* of the options dialog; Stop puts the transfer in upload mode
NextFast ==
    \/ StartMainloop
    \/ Poller
    \/ update_gui_elements({{}})
    \/ add_torrent_files(FastFiles, {{}}, FastDownloadOptions)
    \/ stop_selected

SpecFast == Init /\ [][NextFast]_vars

\* The configuration and the session state: every kind of file an earlier
\* run, or an editor, can have left
DhtOff == [default_config EXCEPT !.enable_dht = FALSE]
PartialFile ==
    Text(<<Punct("{"), Tok("str", "port_range"), Punct(":"), Punct("["),
           Tok("num", <<"7", "0", "0", "0">>), Punct(","),
           Tok("num", <<"7", "0", "1", "0">>), Punct("]"), Punct(","),
           Tok("str", "enable_dht"), Punct(":"), Punct("false"), Punct("}")>>)
ExtraKeyFile ==
    Text(<<Punct("{"), Tok("str", "theme"), Punct(":"), Tok("str", "dark"),
           Punct("}")>>)
TruncatedFile == Text(SubSeq(json_dump(default_config), 1, 6))
BadNumberFile ==
    Text(<<Punct("{"), Tok("str", "max_uploads"), Punct(":"),
           Tok("num", <<"0", "7">>), Punct("}")>>)
NotADictFile == Text(<<Punct("["), Tok("num", <<"1">>), Punct("]")>>)
InvalidJson == {Text(<<>>), TruncatedFile, BadNumberFile}
ConfigFiles ==
    {Missing, Unreadable, NotADictFile, PartialFile, ExtraKeyFile,
     Saved(DhtOff).config} \cup InvalidJson

PreviousState ==
    save_state(session_settings(default_config, DefaultPorts, "started", NoState))
PreviousBlob == Text(bencode(PreviousState))
JsonBlob == Text(<<Punct("{"), Punct("}")>>)
GarbageBlob == Text(<<Punct("{")>>)
StateFiles == {Missing, Unreadable, PreviousBlob, JsonBlob, GarbageBlob}

InitCfg ==
    InitWith({<<TRUE, TRUE>>}, {<<>>}, {EmptyStats},
             [config : ConfigFiles, state : StateFiles])

CfgFields == {"port_start", "fd_conn"}
CfgTexts == {<<"7">>, <<"x">>}

NextCfg ==
    \/ StartMainloop
    \/ Poller
    \/ add_torrent_files(FastFiles, {{}}, {Cancelled})
    \/ show_settings
    \/ settings_edit(CfgFields, CfgTexts)
    \/ settings_apply
    \/ cancel
    \/ on_closing

SpecCfg == InitCfg /\ [][NextCfg]_vars

\* The Settings dialog: every field with texts that parse, that do not, and
\* that are out of range
InitSet ==
    InitWith({<<TRUE, TRUE>>}, {<<>>}, {EmptyStats}, {NoFiles, Saved(DhtOff)})

SetFields == {"global_dl_limit", "global_ul_limit", "port_start", "port_end",
              "max_connections", "max_uploads", "fd_conn"}
SetTexts == {<<>>, <<"x">>, <<"7">>, <<"-", "1">>, <<"1", ".", "5">>,
             <<"7", "0", "0", "0", "0">>}

NextSet ==
    \/ StartMainloop
    \/ show_settings
    \/ settings_edit(SetFields, SetTexts)
    \/ settings_apply
    \/ cancel

SpecSet == InitSet /\ [][NextSet]_vars

\* The rate limits: the toolbar, the Speed Limits dialog and the Settings
\* dialog with texts that parse, that do not, and that are negative
LimitTexts == {<<"x">>, <<"7">>, <<"-", "1">>}
LimitFields == {"global_dl_limit", "global_ul_limit"}

NextLim ==
    \/ StartMainloop
    \/ toolbar_edit(LimitTexts)
    \/ apply_speed_limits_toolbar
    \/ show_speed_limits
    \/ speed_limits_edit(LimitTexts)
    \/ speed_limits_apply
    \/ show_settings
    \/ settings_edit(LimitFields, LimitTexts)
    \/ settings_apply
    \/ cancel

SpecLim == Init /\ [][NextLim]_vars

\* Adding from a URL: the download fails, or delivers a torrent file or junk,
\* and the timer of each temporary file fires at some time
NextUrl ==
    \/ StartMainloop
    \/ Poller
    \/ update_gui_elements({{}})
    \/ download_torrent_from_url({{}}, {Cancelled})
    \/ TimerFires
    \/ clear_log

SpecUrl == Init /\ [][NextUrl]_vars /\ WF_vars(TimerFires)

\* The Fast Download dialog: a configuration with the default options and one
\* whose file switches fast download off; the connections entry emptied, or
\* set to 0 or to 70
InitFd ==
    InitWith({<<TRUE, TRUE>>}, {<<>>}, {EmptyStats},
             {NoFiles,
              Saved([default_config EXCEPT !.fast_download_default_enabled = FALSE])})

FdTexts == {<<>>, <<"0">>, <<"7", "0">>}

NextFd ==
    \/ StartMainloop
    \/ Poller
    \/ update_gui_elements({{}})
    \/ add_torrent_files_asking(FastFiles, FdTexts)

SpecFd == InitFd /\ [][NextFd]_vars

\* The automatic move: transfers that near their end and complete, ticks in
\* which get_torrents or shutil.move raises
AutoFaults == {{}, {"get_torrents"}, {"move"}}

NextAuto ==
    \/ StartMainloop
    \/ Poller
    \/ update_gui_elements(AutoFaults)
    \/ add_torrent_files(TorrentFiles, {{}}, {Cancelled})
    \/ \E h \in Hashes : EngineProgress(h)
    \/ \E h \in Hashes : EngineFinish(h)
    \/ clear_log

\* A client that has run for ten minutes: the sample buffers are full
InitAuto == InitWith({<<TRUE, TRUE>>}, {<<>>}, {FilledStats(PERF_MAXLEN)}, {NoFiles})

SpecAuto == InitAuto /\ [][NextAuto]_vars

\* Hide Completed: two transfers that complete, ticks in which the status of
\* the first one raises
HideFaults == {{}, {"a"}}

NextHide ==
    \/ StartMainloop
    \/ Poller
    \/ update_gui_elements(HideFaults)
    \/ add_torrent_files(TorrentFiles, {{}}, {Cancelled})
    \/ toggle_hide_completed
    \/ \E h \in Hashes : EngineFinish(h)

SpecHide == Init /\ [][NextHide]_vars

\* The search entry: nothing, a letter no row holds, and a part of a status
SearchTerms == {<<>>, <<"z">>, <<"S", "e", "e", "d">>}

NextFilter ==
    \/ StartMainloop
    \/ Poller
    \/ update_gui_elements({{}})
    \/ add_torrent_files(TorrentFiles, {{}}, {Cancelled})
    \/ filter_torrents(SearchTerms)
    \/ \E h \in Hashes : EngineFinish(h)

SpecFilter == Init /\ [][NextFilter]_vars

\* ------------------------------------------------------------ properties

\* The fingerprints of the valid transfers the engine enumerates
Valid(e) == {h \in Hashes : e[h].st = "valid"}
\* The fingerprints that have a row, attached or detached
RowTags(tr) == {tr[i].tag : i \in 1..Len(tr)}

\* C1: after a tick whose engine calls succeed, the keys of the transfer cache
\* are exactly the fingerprints of the valid transfers the engine enumerated,
\* and every cached fingerprint that was not enumerated is gone together with
\* its list row.
C1_TickMirrorsEngine ==
    [][(ev'.op = "tick" /\ ~ev'.raised) =>
          /\ DOMAIN torrents' = Valid(eng)
          /\ \A h \in DOMAIN torrents \ Valid(eng) : h \notin RowTags(tree')]_vars

\* C2: a tick in which session.get_torrents raises leaves the transfer cache
\* and the list rows as they were.
C2_EnumerationErrorIsNoOp ==
    [][(ev'.op = "tick" /\ "get_torrents" \in ev'.faults) =>
          torrents' = torrents /\ tree' = tree]_vars

\* After a step the buffer q1 holds the newest maxlen entries of the buffer q
\* followed by at most two appended entries
Shifted(q, q1, maxlen) ==
    /\ Len(q1) = maxlen
    /\ \E n \in 0..2 : SubSeq(q1, 1, maxlen - n) = SubSeq(q, n + 1, maxlen)

\* C3: the download history never holds more than 3000 entries and each of
\* the four performance buffers never more than 600; an append to a full
\* buffer evicts the oldest entries.
C3_BuffersBounded ==
    /\ [](/\ Len(download_history) <= HISTORY_MAXLEN
          /\ \A k \in DOMAIN performance_stats :
                Len(performance_stats[k]) <= PERF_MAXLEN)
    /\ [][/\ Len(download_history) = HISTORY_MAXLEN =>
                Shifted(download_history, download_history', HISTORY_MAXLEN)
          /\ \A k \in DOMAIN performance_stats :
                Len(performance_stats[k]) = PERF_MAXLEN =>
                   Shifted(performance_stats[k], performance_stats'[k],
                           PERF_MAXLEN)]_vars

\* A full history and full sample buffers whose oldest entries were evicted
C3_Witness ==
    /\ Len(download_history) = HISTORY_MAXLEN
    /\ download_history[1] = NewerEntry
    /\ \A k \in DOMAIN performance_stats :
          /\ Len(performance_stats[k]) = PERF_MAXLEN
          /\ performance_stats[k][1] = Sample

\* C4: the polling thread never mutates widgets: no step of the thread changes
\* the transfer list or the log panel.
C4_PollerLeavesWidgets ==
    [][ev'.thread = "poll" => tree' = tree /\ log_text' = log_text]_vars

\* One pass through lines 664-669 of the polling loop
Iteration == pc = "body" /\ pc' # "body"

\* C5 as stated: every iteration of the polling loop schedules exactly one
\* refresh while running is true, and the thread terminates after the quit
\* handler cleared running.
C5_OneRefreshPerIteration ==
    /\ [][(Iteration /\ running) => pending' = pending + 1]_vars
    /\ (~running ~> pc = "exited")

\* C5 amended: every iteration calls root.after once; exactly one refresh is
\* scheduled when the call succeeds, and none when it raises (the main loop
\* has not started or the window is destroyed), in which case the handler of
\* line 670 runs.  Once running is cleared no new iteration starts and the
\* thread terminates.
C5_OneRefreshUnlessAfterRaises ==
    /\ [][Iteration =>
            \/ /\ window = "open"
               /\ pc' = "test"
               /\ pending' = pending + 1
            \/ /\ window = "destroyed" \/ mainloop = "notstarted"
               /\ pc' = "except"
               /\ pending' = pending]_vars
    /\ [][(~running /\ pc = "test") => pc' # "body"]_vars
    /\ (~running ~> pc = "exited")

\* The thread has left the loop after the quit handler ran
C5_Witness == ~running /\ pc = "exited" /\ window = "destroyed"

ControlOps ==
    {"start", "pause", "stop", "force_resume", "toggle_pause", "force_recheck",
     "force_reannounce", "remove", "remove_and_delete"}

AddOps == {"add_torrent_files", "add_magnet", "add_all", "add_url"}

\* The fingerprints of the sources the engine accepted in a command
Accepted(sent) ==
    {IF sent[i].api = "add_magnet_uri" THEN MagnetTarget(sent[i].arg)
     ELSE FileTarget(sent[i].arg) : i \in {j \in 1..Len(sent) : sent[j].ok}}

\* C7: on every add path, when the engine raises while a transfer is added the
\* exception stays inside the add command, a message is written to the
\* on-screen log, and the failed add leaves the transfer cache and the
\* download history as they were.
C7_FailedAddIsLoggedNoOp ==
    [][(ev'.op \in AddOps /\ ev'.raised) =>
          /\ ~ev'.escaped
          /\ log_text' > log_text
          /\ DOMAIN torrents' \subseteq DOMAIN torrents \cup Accepted(ev'.sent)
          /\ Accepted(ev'.sent) = {} =>
                torrents' = torrents /\ download_history' = download_history]_vars

\* A text starts with the tokens of "magnet:"
HasMagnetPrefix(s) == Len(s) >= 2 /\ s[1] = "magnet" /\ s[2] = ":"

\* The lines of a text, trimmed
TrimmedLines(text) ==
    LET split == SplitLines(text, <<>>)
    IN  {Strip(split[i]) : i \in 1..Len(split)}

\* C10: the magnet dialogs submit no string to the engine that does not start
\* with "magnet:".  The single dialog sets a result exactly when the trimmed
\* entry starts with "magnet:", and otherwise shows an error, stays open and
\* adds nothing; the multi dialog passes on only the lines starting with
\* "magnet:" and rejects a text without one.
C10_DialogsRejectNonMagnets ==
    [][/\ ev'.op \in {"add_magnet", "add_all"} =>
             /\ \A i \in 1..Len(ev'.sent) :
                   /\ ev'.sent[i].api = "add_magnet_uri"
                   /\ HasMagnetPrefix(ev'.sent[i].arg)
             /\ [i \in 1..Len(ev'.sent) |-> ev'.sent[i].arg] = ev'.result
             /\ ev'.result = <<>> =>
                   /\ ev'.dialogs = <<"showerror">>
                   /\ dialog' = dialog
                   /\ UNCHANGED <<eng, torrents, download_history>>
             /\ ev'.result # <<>> => dialog' = NoDialog
       /\ ev'.op = "add_magnet" =>
             IF HasMagnetPrefix(Strip(dialog.text))
             THEN ev'.result = <<Strip(dialog.text)>>
             ELSE ev'.result = <<>>
       /\ ev'.op = "add_all" =>
             /\ \A i \in 1..Len(ev'.result) :
                   /\ HasMagnetPrefix(ev'.result[i])
                   /\ ev'.result[i] \in TrimmedLines(dialog.text)
             /\ ev'.result = <<>> <=>
                   \A l \in TrimmedLines(dialog.text) : ~HasMagnetPrefix(l)]_vars

\* The single dialog has refused a text that is not a magnet link
C10_Witness ==
    /\ ev.op = "add_magnet"
    /\ ev.dialogs = <<"showerror">>
    /\ dialog.kind = "magnet"
    /\ NonBlank(dialog.text)
    /\ ~HasMagnetPrefix(Strip(dialog.text))

\* A move or a copy of transfer content failed in the step: shutil.move or
\* shutil.copytree raised, or the move failed on the state of the disk
FsFailed(e) ==
    \/ e.faults \cap {"move", "copy"} # {}
    \/ \E i \in 1..Len(e.moves) : ~e.moves[i].ok

\* C8: every file-system failure during a save, move or copy of transfer
\* content produces a user-facing dialog, for Save As and for the automatic
\* move of a completed transfer alike.
C8_FsFailureShowsDialog ==
    [][(ev'.op \in {"save_as", "tick"} /\ FsFailed(ev')) =>
          \E i \in 1..Len(ev'.dialogs) : ev'.dialogs[i] = "showerror"]_vars

\* The completed transfer h can be moved: it is cached and not marked moved,
\* its handle is valid and seeding with a name, and its source is on disk
Movable(h) ==
    /\ h \in DOMAIN torrents
    /\ ~torrents[h].moved
    /\ eng[h].st = "valid"
    /\ eng[h].state = "seeding"
    /\ eng[h].name # ""
    /\ SaveDir \in disk

\* C9 as stated: the application re-attempts no failed operation on its own:
\* a transfer whose automatic move failed is not moved again by a later tick
\* without a user command, and a failed listen on the configured range is
\* followed by no second attempt.
C9_NoRetry ==
    /\ [](~listen[1].ok => Len(listen) = 1)
    /\ [][ev'.op = "tick" => ev'.retried = {}]_vars

\* C9 amended: a failed automatic move leaves the transfer not marked moved,
\* and every later tick that reaches the move loop attempts the move again;
\* a failed listen on the configured range is followed by exactly one more
\* attempt, on 6881-6891, and by none after that.
C9_RetriesMoveAndListensTwice ==
    /\ [](/\ Len(listen) = IF listen[1].ok THEN 1 ELSE 2
          /\ Len(listen) = 2 => listen[2].range = <<6881, 6891>>)
    /\ [][ev'.op = "tick" =>
            /\ \A i \in 1..Len(ev'.moves) :
                  ~ev'.moves[i].ok =>
                     /\ ev'.moves[i].hash \in ev'.failed
                     /\ ~torrents'[ev'.moves[i].hash].moved
            /\ (~ev'.raised /\ "mkdir" \notin ev'.faults) =>
                  \A h \in ev.failed : Movable(h) => h \in ev'.retried]_vars

\* A tick has moved again a transfer whose move failed in an earlier tick,
\* in a client whose first listen attempt failed
C9_Witness ==
    /\ ev.op = "tick"
    /\ ev.retried # {}
    /\ Len(listen) = 2

\* The rows are in ascending (descending) order of their Size cells' bytes
Ascending(rows) ==
    \A i, j \in 1..Len(rows) :
        i < j => parse_human(rows[i].size) <= parse_human(rows[j].size)
Descending(rows) ==
    \A i, j \in 1..Len(rows) :
        i < j => parse_human(rows[i].size) >= parse_human(rows[j].size)

\* C11: a click on the Size header leaves the displayed rows ordered by the
\* parsed byte value of their Size cells, ascending when it is the first,
\* third, ... consecutive click on that header and descending when it is the
\* second, fourth, ...
C11_SizeSortAlternates ==
    [][(ev'.op = "sort_treeview" /\ ev'.col = "Size") =>
          IF ev'.clicks % 2 = 1 THEN Ascending(Displayed(tree'))
          ELSE Descending(Displayed(tree'))]_vars

\* An add_torrent_files step that added one file the engine accepted
AddedOne == ev'.op = "add_torrent_files" /\ Len(ev'.sent) = 1 /\ ev'.sent[1].ok
AddedHash == FileTarget(ev'.sent[1].arg)

\* C12: an add of a source whose fingerprint is a key of the cache, and whose
\* transfer the engine holds, leaves the cache, the download history and the
\* connection cap, sequential mode and upload mode of that transfer unchanged
C12_DuplicateAddIsNoOp ==
    [][(AddedOne /\ AddedHash \in DOMAIN torrents /\ eng[AddedHash].st = "valid")
          => /\ torrents' = torrents
             /\ download_history' = download_history
             /\ eng'[AddedHash].max_connections = eng[AddedHash].max_connections
             /\ eng'[AddedHash].sequential = eng[AddedHash].sequential
             /\ eng'[AddedHash].upload_mode = eng[AddedHash].upload_mode]_vars

\* The handle add_torrent passes to apply_fast_download
HandleBefore ==
    IF eng[AddedHash].st = "valid" THEN eng[AddedHash]
    ELSE NewTransfer(AddedHash, "file")

Removed == ev'.sent[1].arg[1]

\* C13: a declined confirmation changes nothing; a confirmed Remove whose
\* engine call succeeds removes the transfer from the engine with a plain
\* remove_torrent(h), its fingerprint from the cache and its row from the list;
\* no Remove, succeeding or failing, deletes a path from the disk
C13_RemoveKeepsData ==
    [][/\ ev'.op = "remove_declined" => UNCHANGED <<eng, torrents, tree, disk>>
       /\ ev'.op = "remove" => disk' = disk
       /\ (ev'.op = "remove" /\ ~ev'.raised) =>
             /\ ev'.sent = <<[api |-> "remove_torrent", arg |-> <<Removed>>,
                              ok |-> TRUE]>>
             /\ eng'[Removed].st = "absent"
             /\ Removed \notin DOMAIN torrents'
             /\ \E i \in Selectable :
                    tree[i].tag = Removed /\ tree' = DeleteAt(tree, i)
             /\ \A i \in Children(tree') : tree'[i].tag # Removed]_vars

\* A transfer whose content was on the disk has been removed: the content is
\* still there
C13_Witness ==
    /\ ev.op = "remove"
    /\ ~ev.raised
    /\ ev.sent[1].arg = <<"a">>
    /\ <<"dl", "a">> \in disk
    /\ "a" \notin DOMAIN torrents
    /\ "b" \in DOMAIN torrents

\* C14: every path a Remove-and-Delete-Data deletes lies at or below
\* save_path/name of the removed transfer, whose name is known
C14_DeletesOwnDataOnly ==
    [][ev'.op = "remove_and_delete" =>
          \A p \in disk \ disk' :
              /\ eng[Removed].name # ""
              /\ IsPrefix(Append(SaveDir, eng[Removed].name), p)]_vars

\* C17: when a confirmed quit has destroyed the window, every valid transfer
\* of the session is paused, except the one whose pause call raised
C17_QuitPausesAll ==
    [][ev'.op = "quit" =>
          \A h \in Hashes \ ev'.faults :
              eng'[h].st = "valid" => eng'[h].paused]_vars

\* A step has written the configuration file
Saving ==
    \/ ev.op \in {"add_torrent_files", "quit"}
    \/ ev.op = "settings_apply" /\ ev.sent # <<>>

AsConfigured ==
    session_settings(config, Listening(listen),
                     IF config.enable_dht THEN "started" ELSE "untouched",
                     NoState)

\* The statements of a quit that write a file
SaveSteps == {"save_session_state_safe", "save_config"}

C19_DhtToggleHonoured ==
    /\ ~config.enable_dht => settings.dht # "started"
    /\ [][~config.enable_dht =>
             ~config'.enable_dht /\ settings'.dht # "started"]_vars

\* The port fields of the form parse and break 1 <= start <= end <= 65535
PortsInvalid(f) ==
    /\ IsPyInt(f.port_start)
    /\ IsPyInt(f.port_end)
    /\ ~(/\ 1 <= py_int(f.port_start)
         /\ py_int(f.port_start) <= py_int(f.port_end)
         /\ py_int(f.port_end) <= 65535)

\* A numeric field of the form does not parse, the connections field apart
UnparsableField(f) ==
    \/ ~IsPyFloat(f.global_dl_limit)
    \/ ~IsPyFloat(f.global_ul_limit)
    \/ ~IsPyInt(f.port_start)
    \/ ~IsPyInt(f.port_end)
    \/ ~IsPyInt(f.max_connections)
    \/ ~IsPyInt(f.max_uploads)

\* The apply step has not invoked the callback: the dialog is open and the
\* configuration, its file and the engine settings are what they were
Rejected ==
    /\ ev'.sent = <<>>
    /\ dialog'.kind = "settings"
    /\ config' = config
    /\ files' = files
    /\ settings' = settings

\* The configuration a successful apply leaves
AppliedInRange ==
    /\ 1 <= config'.port_range[1]
    /\ config'.port_range[1] <= config'.port_range[2]
    /\ config'.port_range[2] <= 65535
    /\ config'.global_dl_limit >= 0
    /\ config'.global_ul_limit >= 0
    /\ config'.fast_download_default_connections \in 1..50

\* C20 as stated: an apply whose port range is invalid or one of whose numeric
\* fields does not parse, the connections field included, is rejected; a
\* successful apply leaves the values in range.
C20_SettingsAllOrNothing ==
    [][ev'.op = "settings_apply" =>
          /\ (PortsInvalid(form) \/ UnparsableField(form)
                 \/ ~IsPyFloat(form.fd_conn)) => Rejected
          /\ ev'.sent # <<>> => AppliedInRange]_vars

\* C20 amended: an apply whose port range is invalid or one of whose numeric
\* fields does not parse is rejected, except that an empty connections field
\* counts as 5; a successful apply leaves the values in range.
C20_AllOrNothingEmptyConnectionsIsFive ==
    [][ev'.op = "settings_apply" =>
          /\ (PortsInvalid(form) \/ UnparsableField(form)
                 \/ (form.fd_conn # <<>> /\ ~IsPyFloat(form.fd_conn))) => Rejected
          /\ (ev'.sent # <<>> /\ form.fd_conn = <<>>) =>
                config'.fast_download_default_connections = 5
          /\ ev'.sent # <<>> => AppliedInRange]_vars

\* An apply with a port range out of 1..65535 has been rejected
C20_Witness ==
    /\ ev.op = "settings_apply"
    /\ ev.dialogs = <<"Port range must be 1..65535 and start <= end.">>
    /\ dialog.kind = "settings"
    /\ form.port_end = <<"7", "0", "0", "0", "0">>

\* The operations that set the global rate limits
LimitOps == {"toolbar_apply", "speed_limits_apply", "settings_apply"}

\* C21: the rate limits of the engine and of the configuration are never
\* negative, and a rejected Apply of the toolbar, the Speed Limits dialog or
\* the Settings dialog leaves the engine limits and the configuration
\* unchanged.
C21_LimitsNeverNegative ==
    /\ [](/\ settings.download_rate_limit >= 0
          /\ settings.upload_rate_limit >= 0
          /\ config.global_dl_limit >= 0
          /\ config.global_ul_limit >= 0)
    /\ [][(ev'.op \in LimitOps /\ ev'.raised) =>
             settings' = settings /\ config' = config]_vars

\* C26: the rate limits of the configuration equal the rate limits set in the
\* engine.
C26_ConfigTracksEngineLimits ==
    /\ config.global_dl_limit = settings.download_rate_limit
    /\ config.global_ul_limit = settings.upload_rate_limit

\* The commands that restart a transfer
RestartOps == {"start", "force_resume", "toggle_pause"}

\* C23: a successful Stop leaves the selected transfer paused and in upload
\* mode; a successful Start, Resume or toggle-pause on a transfer that is in the
\* state Stop leaves (paused, upload mode on) leaves it not paused with upload
\* mode off; a successful Pause leaves upload mode as it was.  No other step
\* changes the two flags of a transfer the engine holds.
C23_StopIsUndoneByRestart ==
    [][/\ (ev'.op = "stop" /\ ~ev'.raised) =>
              eng'[ev'.h].paused /\ eng'[ev'.h].upload_mode
       /\ (ev'.op \in RestartOps /\ ~ev'.raised /\ eng[ev'.h].paused
              /\ eng[ev'.h].upload_mode) =>
              ~eng'[ev'.h].paused /\ ~eng'[ev'.h].upload_mode
       /\ (ev'.op = "pause" /\ ~ev'.raised) =>
              /\ eng'[ev'.h].paused
              /\ eng'[ev'.h].upload_mode = eng[ev'.h].upload_mode
       /\ ev'.op \notin RestartOps \cup {"stop", "pause"} =>
              \A x \in DOMAIN eng \cap DOMAIN eng' :
                 (eng[x].st = "valid" /\ eng'[x].st = "valid") =>
                    /\ eng'[x].paused = eng[x].paused
                    /\ eng'[x].upload_mode = eng[x].upload_mode]_vars

\* Toggle-pause has restarted a transfer that Stop had halted
C23_Witness ==
    /\ ev.op = "toggle_pause"
    /\ ~ev.raised
    /\ ev.was = [paused |-> TRUE, upload_mode |-> TRUE]
    /\ ~eng[ev.h].paused
    /\ ~eng[ev.h].upload_mode

\* The tick ran to its end: the except branch of update_gui_elements was not
\* taken
TickCompleted(e) == e.op = "tick" /\ e.msgs # <<"GUI update error">>

\* The transfers with an attached row
Visible(tr) == {tr[i].tag : i \in Children(tr)}

\* C22: after every polling tick that ran to its end, with Hide Completed on no
\* attached row has the status Finished or Seeding, and with Hide Completed off
\* every cached transfer has an attached row.
C22_HideCompletedHidesAndRestores ==
    [][TickCompleted(ev') =>
          IF hide_completed'
          THEN \A i \in Children(tree') :
                  tree'[i].status \notin {"Finished", "Seeding"}
          ELSE DOMAIN torrents' \subseteq Visible(tree')]_vars

\* Hide Completed was switched on and off again, and the tick after that has
\* given the seeding transfer, whose first row stays detached, a visible row
C22_Witness ==
    /\ TickCompleted(ev)
    /\ ~hide_completed
    /\ \E i, j \in 1..Len(tree) :
          /\ ~tree[i].attached
          /\ tree[i].status = "Seeding"
          /\ tree[j].attached
          /\ tree[j].tag = tree[i].tag
          /\ tree[j].tag \in DOMAIN torrents

\* C24 as stated: the transfer list holds at most one row per fingerprint,
\* attached or detached, and never more rows than there are cached transfers.
C24_OneRowPerTransfer ==
    /\ \A i, j \in 1..Len(tree) : tree[i].tag = tree[j].tag => i = j
    /\ Len(tree) <= Cardinality(DOMAIN torrents)

\* The cached transfers that have a row, attached or detached
Listed(t, tr) == {h \in DOMAIN t : \E i \in 1..Len(tr) : tr[i].tag = h}

\* C25 as stated: after filter_torrents has run for the term of the search
\* entry, every attached row matches the term, in every later state up to the
\* next change of the term; and when the term is cleared and filter_torrents
\* runs, every cached transfer that has a row has an attached row.
C25_SearchFilterStable ==
    /\ [](\A i \in Children(tree) : RowMatches(tree[i], lower(search)))
    /\ [][(ev'.op = "filter_torrents" /\ search # <<>> /\ search' = <<>>) =>
             Listed(torrents', tree') \subseteq Visible(tree')]_vars

\* The transfers whose content a tick moved
MovedIn(e) == {e.moves[i].hash : i \in {j \in 1..Len(e.moves) : e.moves[j].ok}}

\* The engine reports the transfer as downloading with bytes outstanding
Outstanding(h) ==
    /\ eng[h].state = "downloading"
    /\ Status(eng, h).total_done < Status(eng, h).total_wanted

\* C27 as stated: no tick moves content of a transfer that the engine reports
\* as downloading with total_done < total_wanted, and no tick moves content of
\* a transfer whose 'moved' flag is set.
C27_MovesCompletedOnce ==
    [][ev'.op = "tick" =>
          \A h \in MovedIn(ev') :
             /\ ~Outstanding(h)
             /\ h \in DOMAIN torrents => ~torrents[h].moved]_vars

\* C28 as stated: the only path a tick moves for a transfer is save_path/name
\* of that transfer, and a 'moved' flag is set only by a tick that moved the
\* transfer's content.
C28_MovesOwnContentOnly ==
    [][ev'.op = "tick" =>
          /\ \A i \in 1..Len(ev'.moves) :
                ev'.moves[i].from =
                   Append(Status(eng, ev'.moves[i].hash).save_path,
                          Status(eng, ev'.moves[i].hash).name)
          /\ \A h \in DOMAIN torrents' :
                torrents'[h].moved =>
                   \/ h \in DOMAIN torrents /\ torrents[h].moved
                   \/ h \in MovedIn(ev')]_vars

\* C29 as stated: the result of the Fast Download dialog has enabled = true
\* only when the dialog ended by OK with the enable box checked, and then its
\* connections are within 1..50; when it ended any other way, the result has
\* enabled = false and the add leaves the settings of the transfer as the
\* engine created them.
C29_FastOnlyOnConfirmation ==
    [][ev'.op = "add_torrent_files" =>
          /\ ev'.fd.enabled =>
                /\ ev'.result[1] = "ok"
                /\ ev'.result[2]
                /\ ev'.fd.connections \in 1..50
          /\ ev'.result[1] # "ok" =>
                /\ ~ev'.fd.enabled
                /\ AddedOne => eng'[AddedHash] = HandleBefore]_vars

\* The temporary files download_torrent_from_url writes
TempFiles == {TempFile(got) : got \in Hashes \cup {"junk"}}

\* C30 as stated: every temporary file that download_torrent_from_url has
\* written is deleted at some later time.
C30_TempFileDeleted ==
    \A tmp \in TempFiles : (tmp \in disk) ~> (tmp \notin disk)

====
